---- MODULE Spec2Model ----
(***************************************************************************)
(* A state-machine model of pagmo::island (include/pagmo/island.hpp): the  *)
(* island handle, its heap data block (island_data), the asynchronous      *)
(* evolution tasks run by the block's task queue, and the thread_island    *)
(* user-defined island.                                                    *)
(*                                                                         *)
(* Every caller operation is split at the points where another thread can  *)
(* observe it: a mutex acquisition, a blocking get() on a future, a        *)
(* component-wise copy of the population.                                  *)
(***************************************************************************)
EXTENDS Integers, Sequences, FiniteSets, TLC

(***************************************************************************)
(* Bounds of the model.                                                    *)
(***************************************************************************)
\* Number of evolve() calls that may enqueue a task, over the whole run.
MaxTasks == 3

\* The caller threads, the island handles and the data blocks.
Threads == {"t1", "t2"}
Handles == {"A", "B"}
Blocks == {1, 2, 3}
TaskIds == 1..MaxTasks

Null == 0
NoOwner == "free"
Worker == "worker"

(***************************************************************************)
(* pagmo::thread_safety, as island.hpp uses it: an ordered enumeration.    *)
(***************************************************************************)
Tiers == {"none", "copyonly", "basic", "constant"}

TierRank(t) ==
    CASE t = "none" -> 0
      [] t = "copyonly" -> 1
      [] t = "basic" -> 2
      [] t = "constant" -> 3

(***************************************************************************)
(* The algorithm and the population. An algorithm is its thread-safety     *)
(* tier and the population value on which its evolve() throws (NoFail:     *)
(* never): evolve() is a deterministic function of its argument. A         *)
(* population is two components, the decision vectors and their            *)
(* fitnesses, which every complete population keeps equal, and the tier of *)
(* the problem it carries.                                                 *)
(***************************************************************************)
NoFail == 0 - 1

AlgoThrows(a, p) == a.failAt = p.dv

AlgoEvolve(a, p) == [p EXCEPT !.dv = p.dv + 1, !.fv = p.fv + 1]

Complete(p) == p.dv = p.fv

NoAlgo == [tier |-> "unset", failAt |-> NoFail]
NoPop == [dv |-> 0 - 1, fv |-> 0 - 1, prob |-> "unset"]
DefaultAlgo == [tier |-> "basic", failAt |-> NoFail]
DefaultPop == [dv |-> 0, fv |-> 0, prob |-> "basic"]

(***************************************************************************)
(* The shared state of a task's future (std::future<void>): not yet        *)
(* created, pending, holding a value, or holding the exception the task    *)
(* raised.                                                                 *)
(***************************************************************************)
ExcKinds == {"exc_algo_tier", "exc_prob_tier", "exc_copy", "exc_evolve"}

IsExc(s) == s \in ExcKinds

Ready(s) == s = "value" \/ IsExc(s)

\* A handle of the pending list: the task it refers to (Null: the empty
\* future emplaced by evolve()) and whether get() has not been called on it.
EmptyFuture == [tid |-> Null, valid |-> FALSE]

MakeFuture(tid) == [tid |-> tid, valid |-> TRUE]

\* An exception in flight: its kind and the task that raised it.
NoErr == [kind |-> "none", tid |-> Null]

\* What a caller's last operation returned: the operation, the exception it
\* raised (NoErr: it returned normally) and the value it returned.
\* afterRaise: a wait() that found no evolve() returned since the last wait()
\* ended, some wait() having raised before.
NoRet == [op |-> "none", on |-> Null, exc |-> NoErr, flag |-> FALSE, algo |-> NoAlgo,
          pop |-> NoPop, afterRaise |-> FALSE]

VARIABLES
    m_ptr,          \* island::m_ptr of each handle: a block or Null
    hlive,          \* lifetime of each handle: "unborn", "live", "gone"
    blk,            \* lifetime of each block: "unalloc", "live", "dying", "freed"
    algo,           \* island_data::algo
    pop,            \* island_data::pop
    futures_mutex,  \* island_data::futures_mutex: its owner
    algo_mutex,     \* island_data::algo_mutex
    pop_mutex,      \* island_data::pop_mutex
    futures,        \* island_data::futures
    queue,          \* island_data::queue: the tasks not yet started
    qstop,          \* island_data::queue: the stop flag
    archi_ptr,      \* island_data::archi_ptr: an archipelago or Null
    shared,         \* the shared state of each task's future
    ntasks,         \* number of tasks enqueued so far
    wpc,            \* position of each block's worker thread
    wtask,          \* the task the worker is running
    algo_copy,      \* run_evolve's local algo_copy
    pop_copy,       \* run_evolve's locals pop_copy and new_pop
    tpc,            \* position of each caller thread
    th,             \* the handle a caller's operation is called on
    tblk,           \* the block a caller's operation works on
    ti,             \* wait(): the loop index i
    terr,           \* wait(): the exception caught by the outer handler
    tnew,           \* evolve(): the task this call enqueued
    tbuf,           \* the copy of the population a caller is building
    tkind,          \* the lifetime operation a caller is inside, if any
    tsrc,           \* copy: the handle copied from
    talgo,          \* copy: the copy of the algorithm
    tgot,           \* copy: the arguments evaluated so far
    told,           \* the block a caller is destroying
    ret,            \* what each caller's last operation returned
    retOrder,       \* history: tasks in the order their evolve() returned
    startLog,       \* history: tasks in the order the worker started them
    seqpop,         \* history: the population a sequential run would hold
    evSinceWait,    \* history: evolve() successes since the last wait() ended
    raised,         \* history: tasks whose error some wait() has raised
    bfe_pc,         \* position of the caller inside bfe::operator()
    udbfe,          \* the driver the bfe holds
    bfe_p,          \* the problem p of the call: nx, nf, tier, has_batch_fitness
    dvs,            \* the batch dvs of the call: its size, its values conforming
    retval,         \* bfe::operator(): the size of the driver's result
    bfe_ret,        \* what the bfe call returned or raised
    fevals,         \* the fevals counter of the problem p of the call
    out,            \* thread_bfe: the entries of its retval
    ranges,         \* thread_bfe: the ranges parallel_for runs the evaluator on
    texc,           \* thread_bfe: an evaluator has thrown
    fit_calls,      \* history: calls of fitness() on p or on a copy of p
    batch_calls,    \* history: calls of batch_fitness() on p
    route,          \* history: the drivers entered, in order
    bfes,           \* the bfe objects: m_ptr, m_name, m_thread_safety
    archive,        \* what bfe::save has written
    bld             \* position of the caller inside bfe::load

vars == <<m_ptr, hlive, blk, algo, pop, futures_mutex, algo_mutex, pop_mutex,
          futures, queue, qstop, archi_ptr, shared, ntasks, wpc, wtask, algo_copy, pop_copy,
          tpc, th, tblk, ti, terr, tnew, tbuf, tkind, tsrc, talgo, tgot, told,
          ret, retOrder, startLog, seqpop,
          evSinceWait, raised, bfe_pc, udbfe, bfe_p, dvs, retval, bfe_ret,
          fevals, out, ranges, texc, fit_calls, batch_calls, route, bfes, archive, bld>>

bfeCallVars == <<bfe_pc, udbfe, bfe_p, dvs, retval, bfe_ret,
                 fevals, out, ranges, texc, fit_calls, batch_calls, route>>

bfeObjVars == <<bfes, archive, bld>>

bfeVars == <<bfeCallVars, bfeObjVars>>

blockVars == <<blk, algo, pop, futures_mutex, algo_mutex, pop_mutex, futures,
               queue, qstop, archi_ptr>>
workerVars == <<wpc, wtask, algo_copy, pop_copy>>
handleVars == <<m_ptr, hlive>>
waitVars == <<ti, terr, tnew>>
lifeVars == <<tkind, tsrc, talgo, tgot, told>>
histVars == <<retOrder, startLog, seqpop, evSinceWait, raised>>

islandVars == <<handleVars, lifeVars, blockVars, shared, ntasks, workerVars, tpc, th,
                tblk, waitVars, tbuf, ret, histVars>>

(***************************************************************************)
(* Mutexes. lock() waits until the mutex is free; the destructor of a      *)
(* unique_lock releases the mutex only if the lock still owns it.          *)
(***************************************************************************)
Free(mtx, b) == mtx[b] = NoOwner

Lock(mtx, b, who) == [mtx EXCEPT ![b] = who]

Unlock(mtx, b) == [mtx EXCEPT ![b] = NoOwner]

\* Mutant: the locks of the task body are not released when its scope ends.
ReleaseIfOwned_Leaked(mtx, b, who) == mtx

\* ~unique_lock at the end of the task body's scope: unlock if still owned.
ReleaseIfOwned(mtx, b, who) == IF mtx[b] = who THEN Unlock(mtx, b) ELSE mtx

(***************************************************************************)
(* The state after construction: handle A is an island built from an       *)
(* algorithm and a population (island(Algo &&, Pop &&)), whose UDI the     *)
(* default factory makes a thread_island; nothing else exists yet.         *)
(***************************************************************************)
InitAlgos == [tier : Tiers, failAt : {NoFail, 1}]
InitPops == [dv : {0}, fv : {0}, prob : Tiers]

\* The islands the model starts from: every pair of tiers with an algorithm
\* that never throws, and an algorithm that throws on the population the
\* first successful task leaves.
InitIslands ==
    {c \in InitAlgos \X InitPops :
        c[1].failAt = NoFail \/ (c[1].tier = "basic" /\ c[2].prob = "basic")}

InitFrom(islands) ==
    /\ m_ptr = [h \in Handles |-> IF h = "A" THEN 1 ELSE Null]
    /\ hlive = [h \in Handles |-> IF h = "A" THEN "live" ELSE "unborn"]
    /\ blk = [b \in Blocks |-> IF b = 1 THEN "live" ELSE "unalloc"]
    /\ archi_ptr = [b \in Blocks |-> Null]
    /\ \E c \in islands :
          /\ algo = [b \in Blocks |-> IF b = 1 THEN c[1] ELSE NoAlgo]
          /\ pop = [b \in Blocks |-> IF b = 1 THEN c[2] ELSE NoPop]
    /\ futures_mutex = [b \in Blocks |-> NoOwner]
    /\ algo_mutex = [b \in Blocks |-> NoOwner]
    /\ pop_mutex = [b \in Blocks |-> NoOwner]
    /\ futures = [b \in Blocks |-> <<>>]
    /\ queue = [b \in Blocks |-> <<>>]
    /\ qstop = [b \in Blocks |-> FALSE]
    /\ shared = [i \in TaskIds |-> "none"]
    /\ ntasks = 0
    /\ wpc = [b \in Blocks |-> IF b = 1 THEN "idle" ELSE "none"]
    /\ wtask = [b \in Blocks |-> Null]
    /\ algo_copy = [b \in Blocks |-> NoAlgo]
    /\ pop_copy = [b \in Blocks |-> NoPop]
    /\ tpc = [t \in Threads |-> "idle"]
    /\ th = [t \in Threads |-> "A"]
    /\ tblk = [t \in Threads |-> Null]
    /\ ti = [t \in Threads |-> 0]
    /\ terr = [t \in Threads |-> NoErr]
    /\ tnew = [t \in Threads |-> Null]
    /\ tbuf = [t \in Threads |-> NoPop]
    /\ tkind = [t \in Threads |-> "none"]
    /\ tsrc = [t \in Threads |-> "A"]
    /\ talgo = [t \in Threads |-> NoAlgo]
    /\ tgot = [t \in Threads |-> {}]
    /\ told = [t \in Threads |-> Null]
    /\ ret = [t \in Threads |-> NoRet]
    /\ retOrder = [b \in Blocks |-> <<>>]
    /\ startLog = [b \in Blocks |-> <<>>]
    /\ seqpop = pop
    /\ evSinceWait = [b \in Blocks |-> 0]
    /\ raised = {}

\* No bfe is called.
NoProblem == [nx |-> 1, nf |-> 1, tier |-> "basic", has_batch |-> FALSE]
NoDvs == [size |-> 0, conforming |-> TRUE, bad |-> 0]
NoBfeRet == [kind |-> "none", size |-> 0]

BfeCallUnused ==
    /\ bfe_pc = "unused"
    /\ udbfe = "default_bfe"
    /\ bfe_p = NoProblem
    /\ dvs = NoDvs
    /\ retval = 0
    /\ bfe_ret = NoBfeRet
    /\ fevals = 0
    /\ out = <<>>
    /\ ranges = <<>>
    /\ texc = FALSE
    /\ fit_calls = 0
    /\ batch_calls = 0
    /\ route = <<>>

\* The bfe objects of the user, and the tmp_bfe of load().
Objs == {"X", "Y"}
BfeIds == Objs \cup {"tmp"}

\* An empty unique_ptr.
NullDriver == [kind |-> "null", name |-> "", tier |-> "none"]

\* No bfe object, and no archive written.
NoBfe ==
    [st |-> "unborn", m_ptr |-> NullDriver, m_name |-> "", m_thread_safety |-> "none",
     decl_name |-> "", decl_tier |-> "none"]

\* No load() is running.
NoLoad == [pc |-> "idle", target |-> "X", n |-> 0, failed |-> FALSE]

BfeObjUnused ==
    /\ bfes = [o \in BfeIds |-> NoBfe]
    /\ archive = NoBfe
    /\ bld = NoLoad

BfeUnused == BfeCallUnused /\ BfeObjUnused

Init == InitFrom(InitIslands) /\ BfeUnused

(***************************************************************************)
(* The worker thread of a block's task queue, and the task body that       *)
(* island::evolve() enqueues.                                              *)
(***************************************************************************)
\* What one more task does to the population when the tasks run one after
\* the other, each to its end before the next is submitted.
SeqStep(a, p, copyFailed) ==
    IF TierRank(a.tier) < TierRank("basic") \/ TierRank(p.prob) < TierRank("basic")
       \/ copyFailed \/ AlgoThrows(a, p)
    THEN p
    ELSE AlgoEvolve(a, p)

\* The task ends: its result (a value or the exception it raised) is stored
\* in the shared state of its future, and the worker takes the next task.
TaskFinish(b, result, copyFailed) ==
    /\ shared' = [shared EXCEPT ![wtask[b]] = result]
    /\ wtask' = [wtask EXCEPT ![b] = Null]
    /\ algo_copy' = [algo_copy EXCEPT ![b] = NoAlgo]
    /\ pop_copy' = [pop_copy EXCEPT ![b] = NoPop]
    /\ wpc' = [wpc EXCEPT ![b] = "idle"]
    /\ seqpop' = [seqpop EXCEPT ![b] = SeqStep(algo[b], seqpop[b], copyFailed)]

\* task_queue's worker: take the oldest task of the queue.
WorkerDequeue(b) ==
    /\ wpc[b] = "idle"
    /\ queue[b] # <<>>
    /\ wtask' = [wtask EXCEPT ![b] = Head(queue[b])]
    /\ queue' = [queue EXCEPT ![b] = Tail(queue[b])]
    /\ wpc' = [wpc EXCEPT ![b] = "lock_algo"]
    /\ startLog' = [startLog EXCEPT ![b] = Append(startLog[b], Head(queue[b]))]
    /\ UNCHANGED <<bfeVars, handleVars, lifeVars, blk, archi_ptr, algo, pop, futures_mutex, algo_mutex, pop_mutex,
                   futures, qstop, shared, ntasks, algo_copy, pop_copy,
                   tpc, th, tblk, waitVars, tbuf, ret, retOrder, seqpop,
                   evSinceWait, raised>>

\* Mutant: the worker leaves its loop as soon as it is told to stop, with
\* tasks still in the queue.
WorkerExit_Abandons(b) ==
    /\ wpc[b] = "idle"
    /\ qstop[b]
    /\ wpc' = [wpc EXCEPT ![b] = "exited"]
    /\ UNCHANGED <<bfeVars, handleVars, lifeVars, blockVars, shared, ntasks, wtask, algo_copy, pop_copy,
                   tpc, th, tblk, waitVars, tbuf, ret, histVars>>

\* task_queue's worker: leave the loop once stopped with nothing left to run.
WorkerExit(b) ==
    /\ wpc[b] = "idle"
    /\ qstop[b]
    /\ queue[b] = <<>>
    /\ wpc' = [wpc EXCEPT ![b] = "exited"]
    /\ UNCHANGED <<bfeVars, handleVars, lifeVars, blockVars, shared, ntasks, wtask, algo_copy, pop_copy,
                   tpc, th, tblk, waitVars, tbuf, ret, histVars>>

\* std::unique_lock<std::mutex> algo_lock(ptr->algo_mutex);
TaskLockAlgo(b) ==
    /\ wpc[b] = "lock_algo"
    /\ Free(algo_mutex, b)
    /\ algo_mutex' = Lock(algo_mutex, b, Worker)
    /\ wpc' = [wpc EXCEPT ![b] = "lock_pop"]
    /\ UNCHANGED <<bfeVars, handleVars, lifeVars, blk, archi_ptr, algo, pop, futures_mutex, pop_mutex, futures,
                   queue, qstop, shared, ntasks, wtask, algo_copy, pop_copy,
                   tpc, th, tblk, waitVars, tbuf, ret, histVars>>

\* std::unique_lock<std::mutex> pop_lock(ptr->pop_mutex);
TaskLockPop(b) ==
    /\ wpc[b] = "lock_pop"
    /\ Free(pop_mutex, b)
    /\ pop_mutex' = Lock(pop_mutex, b, Worker)
    /\ wpc' = [wpc EXCEPT ![b] = "run_evolve"]
    /\ UNCHANGED <<bfeVars, handleVars, lifeVars, blk, archi_ptr, algo, pop, futures_mutex, algo_mutex, futures,
                   queue, qstop, shared, ntasks, wtask, algo_copy, pop_copy,
                   tpc, th, tblk, waitVars, tbuf, ret, histVars>>

\* Mutant: the problem is checked before the algorithm.
CheckThreadSafety_ProblemFirst(a, p) ==
    IF TierRank(p.prob) < TierRank("basic") THEN "exc_prob_tier"
    ELSE IF TierRank(a.tier) < TierRank("basic") THEN "exc_algo_tier"
    ELSE "value"

\* Mutant: only the algorithm is checked, the problem is not.
CheckThreadSafety_AlgoOnly(a, p) ==
    IF TierRank(a.tier) < TierRank("basic") THEN "exc_algo_tier" ELSE "value"

\* thread_island::check_thread_safety on the algorithm and on the problem,
\* in this order: the exception of the first check that fails, or "value".
CheckThreadSafety(a, p) ==
    IF TierRank(a.tier) < TierRank("basic") THEN "exc_algo_tier"
    ELSE IF TierRank(p.prob) < TierRank("basic") THEN "exc_prob_tier"
    ELSE "value"

\* thread_island::run_evolve up to algo_lock.unlock(): the two checks and
\* the copy of the algorithm. An exception unwinds through the task body,
\* whose two locks release the mutexes they own.
RunEvolveCopyAlgo(b) ==
    /\ wpc[b] = "run_evolve"
    /\ \/ /\ CheckThreadSafety(algo[b], pop[b]) # "value"
          /\ TaskFinish(b, CheckThreadSafety(algo[b], pop[b]), FALSE)
          /\ algo_mutex' = ReleaseIfOwned(algo_mutex, b, Worker)
          /\ pop_mutex' = ReleaseIfOwned(pop_mutex, b, Worker)
       \/ /\ CheckThreadSafety(algo[b], pop[b]) = "value"
          /\ TaskFinish(b, "exc_copy", TRUE)
          /\ algo_mutex' = ReleaseIfOwned(algo_mutex, b, Worker)
          /\ pop_mutex' = ReleaseIfOwned(pop_mutex, b, Worker)
       \/ /\ CheckThreadSafety(algo[b], pop[b]) = "value"
          /\ algo_copy' = [algo_copy EXCEPT ![b] = algo[b]]
          /\ algo_mutex' = Unlock(algo_mutex, b)
          /\ wpc' = [wpc EXCEPT ![b] = "copy_pop"]
          /\ UNCHANGED <<pop_mutex, shared, wtask, pop_copy, seqpop>>
    /\ UNCHANGED <<bfeVars, handleVars, lifeVars, blk, archi_ptr, algo, pop, futures_mutex, futures, queue, qstop,
                   ntasks, tpc, th, tblk, waitVars, tbuf, ret, retOrder, startLog,
                   evSinceWait, raised>>

\* Mutant: run_evolve keeps pop_lock locked while it evolves.
PopLockUnlocked_Held(mtx, b) == mtx

\* pop_lock.unlock() in run_evolve, before the evolution.
PopLockUnlocked(mtx, b) == Unlock(mtx, b)

\* auto pop_copy(pop); pop_lock.unlock();
RunEvolveCopyPop(b) ==
    /\ wpc[b] = "copy_pop"
    /\ \/ /\ TaskFinish(b, "exc_copy", TRUE)
          /\ pop_mutex' = ReleaseIfOwned(pop_mutex, b, Worker)
       \/ /\ pop_copy' = [pop_copy EXCEPT ![b] = pop[b]]
          /\ pop_mutex' = PopLockUnlocked(pop_mutex, b)
          /\ wpc' = [wpc EXCEPT ![b] = "evolve"]
          /\ UNCHANGED <<shared, wtask, algo_copy, seqpop>>
    /\ UNCHANGED <<bfeVars, handleVars, lifeVars, blk, archi_ptr, algo, pop, futures_mutex, algo_mutex, futures,
                   queue, qstop, ntasks, tpc, th, tblk, waitVars, tbuf, ret,
                   retOrder, startLog, evSinceWait, raised>>

\* auto new_pop(algo_copy.evolve(pop_copy)); no mutex is held.
RunEvolveEvolve(b) ==
    /\ wpc[b] = "evolve"
    /\ IF AlgoThrows(algo_copy[b], pop_copy[b])
       THEN /\ TaskFinish(b, "exc_evolve", FALSE)
            /\ pop_mutex' = ReleaseIfOwned(pop_mutex, b, Worker)
       ELSE /\ pop_copy' = [pop_copy EXCEPT ![b] = AlgoEvolve(algo_copy[b], pop_copy[b])]
            /\ wpc' = [wpc EXCEPT ![b] = "relock"]
            /\ UNCHANGED <<pop_mutex, shared, wtask, algo_copy, seqpop>>
    /\ UNCHANGED <<bfeVars, handleVars, lifeVars, blk, archi_ptr, algo, pop, futures_mutex, algo_mutex, futures,
                   queue, qstop, ntasks, tpc, th, tblk, waitVars, tbuf, ret,
                   retOrder, startLog, evSinceWait, raised>>

\* Mutant: the evolved population is assigned without pop_lock.lock().
RelockGuard_NoLock(b) == TRUE

\* pop_lock.lock();
RelockGuard(b) == Free(pop_mutex, b)

RunEvolveRelock(b) ==
    /\ wpc[b] = "relock"
    /\ RelockGuard(b)
    /\ pop_mutex' = Lock(pop_mutex, b, Worker)
    /\ wpc' = [wpc EXCEPT ![b] = "assign_dv"]
    /\ UNCHANGED <<bfeVars, handleVars, lifeVars, blk, archi_ptr, algo, pop, futures_mutex, algo_mutex, futures,
                   queue, qstop, shared, ntasks, wtask, algo_copy, pop_copy,
                   tpc, th, tblk, waitVars, tbuf, ret, histVars>>

\* Mutant: the population that was there is assigned back.
Published_Stale(new_pop, old_copy) == old_copy

\* pop = std::move(new_pop): the value that is assigned.
Published(new_pop, old_copy) == new_pop

\* pop = std::move(new_pop): the first component is written.
RunEvolveAssignDv(b) ==
    /\ wpc[b] = "assign_dv"
    /\ pop' = [pop EXCEPT ![b].dv = Published(pop_copy[b], pop[b]).dv]
    /\ wpc' = [wpc EXCEPT ![b] = "assign_fv"]
    /\ UNCHANGED <<bfeVars, handleVars, lifeVars, blk, archi_ptr, algo, futures_mutex, algo_mutex, pop_mutex,
                   futures, queue, qstop, shared, ntasks, wtask, algo_copy, pop_copy,
                   tpc, th, tblk, waitVars, tbuf, ret, histVars>>

\* pop = std::move(new_pop): the second component is written; run_evolve
\* returns, the task body's locks are destroyed and the task ends.
RunEvolveAssignFv(b) ==
    /\ wpc[b] = "assign_fv"
    /\ pop' = [pop EXCEPT ![b].fv = Published(pop_copy[b], pop[b]).fv]
    /\ TaskFinish(b, "value", FALSE)
    /\ algo_mutex' = ReleaseIfOwned(algo_mutex, b, Worker)
    /\ pop_mutex' = ReleaseIfOwned(pop_mutex, b, Worker)
    /\ UNCHANGED <<bfeVars, handleVars, lifeVars, blk, archi_ptr, algo, futures_mutex, futures, queue, qstop,
                   ntasks, tpc, th, tblk, waitVars, tbuf, ret, retOrder, startLog,
                   evSinceWait, raised>>

WorkerStep(b) ==
    \/ WorkerDequeue(b)
    \/ TaskLockAlgo(b)
    \/ TaskLockPop(b)
    \/ RunEvolveCopyAlgo(b)
    \/ RunEvolveCopyPop(b)
    \/ RunEvolveEvolve(b)
    \/ RunEvolveRelock(b)
    \/ RunEvolveAssignDv(b)
    \/ RunEvolveAssignFv(b)

(***************************************************************************)
(* The caller operations of a live island: evolve(), wait(), busy(),       *)
(* get_algorithm(), get_population(). A call names the handle; the block   *)
(* it works on is the one m_ptr points to.                                 *)
(***************************************************************************)
IslandOps == {"evolve", "wait", "busy", "get_algorithm", "get_population"}

EvolvePcs == {"evolve", "ev_enqueue", "ev_ret"}

\* The evolve() calls in progress that have not enqueued their task yet.
EvolvesInFlight == Cardinality({t \in Threads : tpc[t] \in {"evolve", "ev_enqueue"}})

Usable(h) == hlive[h] = "live" /\ m_ptr[h] # Null

Call(t, h, op) ==
    /\ tpc[t] = "idle"
    /\ Usable(h)
    /\ op = "evolve" => ntasks + EvolvesInFlight < MaxTasks
    /\ tpc' = [tpc EXCEPT ![t] = op]
    /\ th' = [th EXCEPT ![t] = h]
    /\ tblk' = [tblk EXCEPT ![t] = m_ptr[h]]
    /\ ret' = [ret EXCEPT ![t] = NoRet]
    /\ UNCHANGED <<bfeVars, handleVars, lifeVars, blockVars, shared, ntasks, workerVars, waitVars, tbuf,
                   histVars>>

\* The operation of thread t returns r (or raises r.exc).
Return(t, r) ==
    /\ tpc' = [tpc EXCEPT ![t] = "idle"]
    /\ tblk' = [tblk EXCEPT ![t] = Null]
    /\ ret' = [ret EXCEPT ![t] = [r EXCEPT !.on = tblk[t]]]

SetBack(fs, f) == IF fs = <<>> THEN fs ELSE [fs EXCEPT ![Len(fs)] = f]

\* Mutant: the catch block of evolve() rethrows without futures.pop_back().
PopBack_Kept(fs) == fs

\* m_ptr->futures.pop_back() in the catch block of evolve().
PopBack(fs) == IF fs = <<>> THEN fs ELSE SubSeq(fs, 1, Len(fs) - 1)

\* Mutant: evolve() without the lock on futures_mutex.
EvolveLockGuard_NoMutex(b) == TRUE

\* std::lock_guard<std::mutex> lock(m_ptr->futures_mutex) in evolve().
EvolveLockGuard(b) == Free(futures_mutex, b)

\* evolve(): take futures_mutex and emplace the empty future.
EvolveLock(t) ==
    /\ tpc[t] = "evolve"
    /\ EvolveLockGuard(tblk[t])
    /\ futures_mutex' = Lock(futures_mutex, tblk[t], t)
    /\ futures' = [futures EXCEPT ![tblk[t]] = Append(@, EmptyFuture)]
    /\ tpc' = [tpc EXCEPT ![t] = "ev_enqueue"]
    /\ UNCHANGED <<bfeVars, handleVars, lifeVars, blk, archi_ptr, algo, pop, algo_mutex, pop_mutex, queue, qstop,
                   shared, ntasks, workerVars, th, tblk, waitVars, tbuf, ret, histVars>>

\* task_queue::enqueue: the task joins the end of the queue.
Enqueue(q, tid) == Append(q, tid)

\* evolve(): enqueue the task and move its future into the last element of
\* the list; or enqueue throws, having enqueued nothing: the empty future is
\* popped and the exception leaves evolve(), whose guard unlocks.
EvolveEnqueue(t) ==
    /\ tpc[t] = "ev_enqueue"
    /\ \/ /\ ntasks' = ntasks + 1
          /\ queue' = [queue EXCEPT ![tblk[t]] = Enqueue(@, ntasks + 1)]
          /\ shared' = [shared EXCEPT ![ntasks + 1] = "pending"]
          /\ futures' = [futures EXCEPT ![tblk[t]] = SetBack(@, MakeFuture(ntasks + 1))]
          /\ tnew' = [tnew EXCEPT ![t] = ntasks + 1]
          /\ tpc' = [tpc EXCEPT ![t] = "ev_ret"]
          /\ UNCHANGED <<futures_mutex, tblk, ret>>
       \/ /\ futures' = [futures EXCEPT ![tblk[t]] = PopBack(@)]
          /\ futures_mutex' = Unlock(futures_mutex, tblk[t])
          /\ Return(t, [NoRet EXCEPT !.op = "evolve",
                                     !.exc = [kind |-> "exc_enqueue", tid |-> Null]])
          /\ UNCHANGED <<ntasks, queue, shared, tnew>>
    /\ UNCHANGED <<bfeVars, handleVars, lifeVars, blk, archi_ptr, algo, pop, algo_mutex, pop_mutex, qstop,
                   workerVars, th, ti, terr, tbuf, histVars>>

\* evolve(): the guard unlocks and the call returns.
EvolveReturn(t) ==
    /\ tpc[t] = "ev_ret"
    /\ futures_mutex' = Unlock(futures_mutex, tblk[t])
    /\ Return(t, [NoRet EXCEPT !.op = "evolve"])
    /\ tnew' = [tnew EXCEPT ![t] = Null]
    /\ retOrder' = [retOrder EXCEPT ![tblk[t]] = Append(@, tnew[t])]
    /\ evSinceWait' = [evSinceWait EXCEPT ![tblk[t]] = @ + 1]
    /\ UNCHANGED <<bfeVars, handleVars, lifeVars, blk, archi_ptr, algo, pop, algo_mutex, pop_mutex, futures, queue,
                   qstop, shared, ntasks, workerVars, th, ti, terr, tbuf, startLog,
                   seqpop, raised>>

\* Mutant: get() does not block.
HandleReady_NoBlock(f) == TRUE

\* The state get() finds in a handle, and what get() can do once it is
\* ready: return, or rethrow the stored exception. get() on a handle that
\* has no shared state (an empty future, or one get() was already called
\* on) is undefined: it may return or throw std::future_error.
HandleReady(f) == IF f.tid = Null \/ ~f.valid THEN TRUE ELSE Ready(shared[f.tid])

GetOutcomes(f) ==
    IF f.tid = Null \/ ~f.valid
    THEN {NoErr, [kind |-> "exc_no_state", tid |-> f.tid]}
    ELSE IF IsExc(shared[f.tid])
         THEN {[kind |-> shared[f.tid], tid |-> f.tid]}
         ELSE {NoErr}

\* Mutant: wait() without the lock on futures_mutex.
WaitLockGuard_NoMutex(b) == TRUE

\* std::lock_guard<std::mutex> lock(m_ptr->futures_mutex) in wait().
WaitLockGuard(b) == Free(futures_mutex, b)

\* wait(): take futures_mutex and begin with the first handle.
WaitLock(t) ==
    /\ tpc[t] = "wait"
    /\ WaitLockGuard(tblk[t])
    /\ futures_mutex' = Lock(futures_mutex, tblk[t], t)
    /\ ti' = [ti EXCEPT ![t] = 1]
    /\ terr' = [terr EXCEPT ![t] = NoErr]
    /\ tpc' = [tpc EXCEPT ![t] = "wt_get"]
    /\ UNCHANGED <<bfeVars, handleVars, lifeVars, blk, archi_ptr, algo, pop, algo_mutex, pop_mutex, futures, queue,
                   qstop, shared, ntasks, workerVars, th, tblk, tnew, tbuf, ret,
                   histVars>>

\* Mutant: the last exception caught replaces the first.
Caught_Last(c, e) == IF e # NoErr THEN e ELSE c

\* The exception wait() keeps when get() throws e with c already caught.
Caught(c, e) == IF c = NoErr THEN e ELSE c

\* wait(): m_ptr->futures[i].get() in the outer loop (no exception caught
\* yet) or in the inner loop (the exception is swallowed). get() blocks
\* until the task has ended and leaves the handle without shared state.
WaitGet(t) ==
    /\ tpc[t] \in {"wt_get", "wt_drain"}
    /\ ti[t] <= Len(futures[tblk[t]])
    /\ HandleReady(futures[tblk[t]][ti[t]])
    /\ \E e \in GetOutcomes(futures[tblk[t]][ti[t]]) :
          /\ terr' = [terr EXCEPT ![t] = Caught(@, e)]
          /\ tpc' = [tpc EXCEPT ![t] = IF Caught(terr[t], e) = NoErr
                                       THEN "wt_get" ELSE "wt_drain"]
    /\ futures' = [futures EXCEPT ![tblk[t]][ti[t]].valid = FALSE]
    /\ ti' = [ti EXCEPT ![t] = @ + 1]
    /\ UNCHANGED <<bfeVars, handleVars, lifeVars, blk, archi_ptr, algo, pop, futures_mutex, algo_mutex, pop_mutex,
                   queue, qstop, shared, ntasks, workerVars, th, tblk, tnew, tbuf,
                   ret, histVars>>

\* Mutant: wait() does not clear the list.
Cleared_Kept(fs) == fs

\* m_ptr->futures.clear() at the end of wait(), on both paths.
Cleared(fs) == <<>>

\* What std::mutex::lock() throws when the locking primitive fails.
SystemError == [kind |-> "exc_system", tid |-> Null]

\* Mutant: ~island() calls wait() outside any try block.
DtorCatches_Nothing(e) == e

\* ~island(): of what wait() throws, a std::system_error is rethrown, out
\* of a destructor, and anything else is swallowed.
DtorCatches(e) == IF e.kind = "exc_system" THEN e ELSE NoErr

\* wait(): past the last handle: clear the list, unlock, and return or
\* rethrow the exception caught. Called by ~island(), the exception is
\* swallowed and the destructor goes on to destroy the data block; a
\* std::system_error would leave the destructor and end the program.
WaitReturn(t) ==
    /\ tpc[t] \in {"wt_get", "wt_drain"}
    /\ ti[t] > Len(futures[tblk[t]])
    /\ futures' = [futures EXCEPT ![tblk[t]] = Cleared(@)]
    /\ futures_mutex' = Unlock(futures_mutex, tblk[t])
    /\ IF tkind[t] = "dtor"
       THEN /\ IF DtorCatches(terr[t]) = NoErr
               THEN /\ tpc' = [tpc EXCEPT ![t] = "dd_stop"]
                    /\ told' = [told EXCEPT ![t] = tblk[t]]
                    /\ UNCHANGED ret
               ELSE /\ tpc' = [tpc EXCEPT ![t] = "terminated"]
                    /\ ret' = [ret EXCEPT ![t] = [NoRet EXCEPT !.op = "dtor",
                                                               !.on = tblk[t],
                                                               !.exc = DtorCatches(terr[t])]]
                    /\ UNCHANGED told
            /\ UNCHANGED <<tblk, raised>>
       ELSE /\ Return(t, [NoRet EXCEPT !.op = "wait", !.exc = terr[t],
                                       !.afterRaise = (evSinceWait[tblk[t]] = 0
                                                       /\ raised # {})])
            /\ raised' = IF terr[t] = NoErr THEN raised ELSE raised \cup {terr[t].tid}
            /\ UNCHANGED told
    /\ ti' = [ti EXCEPT ![t] = 0]
    /\ terr' = [terr EXCEPT ![t] = NoErr]
    /\ evSinceWait' = [evSinceWait EXCEPT ![tblk[t]] = 0]
    /\ UNCHANGED <<bfeVars, handleVars, tkind, tsrc, talgo, tgot, blk, archi_ptr, algo, pop, algo_mutex,
                   pop_mutex, queue, qstop, shared, ntasks, workerVars, th, tnew, tbuf,
                   retOrder, startLog, seqpop>>

\* std::lock_guard<std::mutex> lock(m_ptr->futures_mutex) in busy().
BusyLock(t) ==
    /\ tpc[t] = "busy"
    /\ Free(futures_mutex, tblk[t])
    /\ futures_mutex' = Lock(futures_mutex, tblk[t], t)
    /\ tpc' = [tpc EXCEPT ![t] = "bz_scan"]
    /\ UNCHANGED <<bfeVars, handleVars, lifeVars, blk, archi_ptr, algo, pop, algo_mutex, pop_mutex, futures, queue,
                   qstop, shared, ntasks, workerVars, th, tblk, waitVars, tbuf, ret,
                   histVars>>

\* Mutant: the status is compared with std::future_status::deferred.
NotReady_Deferred(f) == FALSE

\* f.wait_for(zero) != std::future_status::ready
NotReady(f) == ~Ready(shared[f.tid])

\* Mutant: busy() probes with get(), which rethrows what the task raised.
ProbeThrows_Rethrows(f) ==
    IF IsExc(shared[f.tid]) THEN [kind |-> shared[f.tid], tid |-> f.tid] ELSE NoErr

\* What f.wait_for(zero) throws: nothing, also when the task raised.
ProbeThrows(f) == NoErr

\* busy(): the loop over the handles from the i-th on: the exception that
\* leaves it, if any, and the value returned otherwise.
RECURSIVE BusyLoop(_, _)
BusyLoop(fs, i) ==
    IF i > Len(fs) THEN [exc |-> NoErr, flag |-> FALSE]
    ELSE IF ProbeThrows(fs[i]) # NoErr THEN [exc |-> ProbeThrows(fs[i]), flag |-> FALSE]
    ELSE IF NotReady(fs[i]) THEN [exc |-> NoErr, flag |-> TRUE]
    ELSE BusyLoop(fs, i + 1)

\* wait_for() on a handle without shared state is undefined: busy() may
\* then return either value.
BusyResults(fs) ==
    IF \E i \in 1..Len(fs) : fs[i].tid = Null \/ ~fs[i].valid
    THEN {[exc |-> NoErr, flag |-> v] : v \in BOOLEAN}
    ELSE {BusyLoop(fs, 1)}

\* Mutant: busy() erases the handles it finds ready.
BusyKeeps_Consumes(fs) == SelectSeq(fs, LAMBDA f : f.tid # Null /\ ~Ready(shared[f.tid]))

\* The pending list as busy() leaves it.
BusyKeeps(fs) == fs

\* busy(): scan the handles, unlock and return.
BusyScan(t) ==
    /\ tpc[t] = "bz_scan"
    /\ \E r \in BusyResults(futures[tblk[t]]) :
          Return(t, [NoRet EXCEPT !.op = "busy", !.exc = r.exc, !.flag = r.flag])
    /\ futures' = [futures EXCEPT ![tblk[t]] = BusyKeeps(@)]
    /\ futures_mutex' = Unlock(futures_mutex, tblk[t])
    /\ UNCHANGED <<bfeVars, handleVars, lifeVars, blk, archi_ptr, algo, pop, algo_mutex, pop_mutex, queue, qstop,
                   shared, ntasks, workerVars, th, waitVars, tbuf, histVars>>

\* std::lock_guard<std::mutex> lock(m_ptr->algo_mutex) in get_algorithm().
GetAlgorithmLock(t) ==
    /\ tpc[t] = "get_algorithm"
    /\ Free(algo_mutex, tblk[t])
    /\ algo_mutex' = Lock(algo_mutex, tblk[t], t)
    /\ tpc' = [tpc EXCEPT ![t] = "ga_copy"]
    /\ UNCHANGED <<bfeVars, handleVars, lifeVars, blk, archi_ptr, algo, pop, futures_mutex, pop_mutex, futures,
                   queue, qstop, shared, ntasks, workerVars, th, tblk, waitVars, tbuf,
                   ret, histVars>>

\* get_algorithm(): return m_ptr->algo; the guard unlocks.
GetAlgorithmCopy(t) ==
    /\ tpc[t] = "ga_copy"
    /\ algo_mutex' = Unlock(algo_mutex, tblk[t])
    /\ Return(t, [NoRet EXCEPT !.op = "get_algorithm", !.algo = algo[tblk[t]]])
    /\ UNCHANGED <<bfeVars, handleVars, lifeVars, blk, archi_ptr, algo, pop, futures_mutex, pop_mutex, futures,
                   queue, qstop, shared, ntasks, workerVars, th, waitVars, tbuf,
                   histVars>>

\* std::lock_guard<std::mutex> lock(m_ptr->pop_mutex) in get_population().
GetPopulationGuard(b) == Free(pop_mutex, b)

\* get_population(): take pop_mutex and copy the first component.
GetPopulationLock(t) ==
    /\ tpc[t] = "get_population"
    /\ GetPopulationGuard(tblk[t])
    /\ pop_mutex' = Lock(pop_mutex, tblk[t], t)
    /\ tbuf' = [tbuf EXCEPT ![t] = [pop[tblk[t]] EXCEPT !.fv = NoPop.fv]]
    /\ tpc' = [tpc EXCEPT ![t] = "gp_copy"]
    /\ UNCHANGED <<bfeVars, handleVars, lifeVars, blk, archi_ptr, algo, pop, futures_mutex, algo_mutex, futures,
                   queue, qstop, shared, ntasks, workerVars, th, tblk, waitVars, ret,
                   histVars>>

\* get_population(): copy the second component, unlock and return the copy.
GetPopulationCopy(t) ==
    /\ tpc[t] = "gp_copy"
    /\ pop_mutex' = Unlock(pop_mutex, tblk[t])
    /\ Return(t, [NoRet EXCEPT !.op = "get_population",
                               !.pop = [tbuf[t] EXCEPT !.fv = pop[tblk[t]].fv]])
    /\ tbuf' = [tbuf EXCEPT ![t] = NoPop]
    /\ UNCHANGED <<bfeVars, handleVars, lifeVars, blk, archi_ptr, algo, pop, futures_mutex, algo_mutex, futures,
                   queue, qstop, shared, ntasks, workerVars, th, waitVars, histVars>>

CallerStep(t) ==
    \/ EvolveLock(t)
    \/ EvolveEnqueue(t)
    \/ EvolveReturn(t)
    \/ WaitLock(t)
    \/ WaitGet(t)
    \/ WaitReturn(t)
    \/ BusyLock(t)
    \/ BusyScan(t)
    \/ GetAlgorithmLock(t)
    \/ GetAlgorithmCopy(t)
    \/ GetPopulationLock(t)
    \/ GetPopulationCopy(t)

(***************************************************************************)
(* The lifetime of handles and data blocks: construction by copy and by    *)
(* move, the two assignments, load() and the destructor.                   *)
(***************************************************************************)
HasFreshBlock == \E b \in Blocks : blk[b] = "unalloc"

FreshBlock == CHOOSE b \in Blocks : blk[b] = "unalloc" /\ \A c \in Blocks : blk[c] = "unalloc" => b <= c

\* detail::make_unique<idata_t>(...): a new data block with algorithm a and
\* population p, no pending handle, a null archipelago pointer, and a task
\* queue whose worker waits for tasks.
MakeBlock(b, a, p) ==
    /\ blk' = [blk EXCEPT ![b] = "live"]
    /\ archi_ptr' = [archi_ptr EXCEPT ![b] = Null]
    /\ algo' = [algo EXCEPT ![b] = a]
    /\ pop' = [pop EXCEPT ![b] = p]
    /\ seqpop' = [seqpop EXCEPT ![b] = p]
    /\ wpc' = [wpc EXCEPT ![b] = "idle"]

\* Mutant: the move leaves the source's pointer as it was.
Moved_SourceKept(mp, dst, src) == [mp EXCEPT ![dst] = mp[src]]

\* std::move of a unique_ptr into another: the target owns the block, the
\* source is null.
Moved(mp, dst, src) == [mp EXCEPT ![dst] = mp[src], ![src] = Null]

\* island(island &&other): m_ptr(std::move(other.m_ptr))
MoveConstruct(t, dst, src) ==
    /\ tpc[t] = "idle"
    /\ hlive[dst] = "unborn"
    /\ hlive[src] = "live"
    /\ m_ptr' = Moved(m_ptr, dst, src)
    /\ hlive' = [hlive EXCEPT ![dst] = "live"]
    /\ th' = [th EXCEPT ![t] = dst]
    /\ ret' = [ret EXCEPT ![t] = [NoRet EXCEPT !.op = "move_ctor"]]
    /\ UNCHANGED <<bfeVars, blockVars, shared, ntasks, workerVars, tpc, tblk, waitVars, tbuf,
                   lifeVars, histVars>>

\* Mutant: the assignment releases the block the target owned without
\* deleting it.
Displaced_Leaked(mp, h) == Null

\* The block a unique_ptr owned when it is move-assigned another: the one
\* the assignment deletes.
Displaced(mp, h) == mp[h]

\* The operation of thread t goes on to destroy block old, if there is one,
\* and returns r otherwise.
DestroyOrReturn(t, old, kind, r) ==
    IF old = Null
    THEN /\ Return(t, r)
         /\ tkind' = [tkind EXCEPT ![t] = "none"]
         /\ UNCHANGED told
    ELSE /\ tpc' = [tpc EXCEPT ![t] = "dd_stop"]
         /\ tkind' = [tkind EXCEPT ![t] = kind]
         /\ told' = [told EXCEPT ![t] = old]
         /\ tblk' = [tblk EXCEPT ![t] = Null]
         /\ ret' = [ret EXCEPT ![t] = NoRet]

\* operator=(island &&other): m_ptr = std::move(other.m_ptr). The unique_ptr
\* takes other's block and deletes the block it owned.
MoveAssign(t, dst, src) ==
    /\ tpc[t] = "idle"
    /\ dst # src
    /\ hlive[dst] = "live"
    /\ hlive[src] = "live"
    /\ m_ptr' = Moved(m_ptr, dst, src)
    /\ th' = [th EXCEPT ![t] = dst]
    /\ DestroyOrReturn(t, Displaced(m_ptr, dst), "move_assign", [NoRet EXCEPT !.op = "move_assign"])
    /\ UNCHANGED <<bfeVars, hlive, blockVars, shared, ntasks, workerVars, waitVars, tbuf, tsrc,
                   talgo, tgot, histVars>>

\* ~island(): nothing for a moved-from island; wait() otherwise.
DestroyCall(t, h) ==
    /\ tpc[t] = "idle"
    /\ hlive[h] = "live"
    /\ th' = [th EXCEPT ![t] = h]
    /\ IF m_ptr[h] = Null
       THEN /\ hlive' = [hlive EXCEPT ![h] = "gone"]
            /\ ret' = [ret EXCEPT ![t] = [NoRet EXCEPT !.op = "dtor"]]
            /\ UNCHANGED <<tpc, tkind, tblk>>
       ELSE /\ tpc' = [tpc EXCEPT ![t] = "wait"]
            /\ tkind' = [tkind EXCEPT ![t] = "dtor"]
            /\ tblk' = [tblk EXCEPT ![t] = m_ptr[h]]
            /\ ret' = [ret EXCEPT ![t] = NoRet]
            /\ UNCHANGED hlive
    /\ UNCHANGED <<bfeVars, m_ptr, blockVars, shared, ntasks, workerVars, waitVars, tbuf, tsrc,
                   talgo, tgot, told, histVars>>

\* ~island(): the lock of futures_mutex in wait() throws std::system_error,
\* which the destructor rethrows: the program terminates.
DtorLockFails(t) ==
    /\ tpc[t] = "wait"
    /\ tkind[t] = "dtor"
    /\ tpc' = [tpc EXCEPT ![t] = "terminated"]
    /\ ret' = [ret EXCEPT ![t] = [NoRet EXCEPT !.op = "dtor", !.on = tblk[t],
                                               !.exc = DtorCatches(SystemError)]]
    /\ UNCHANGED <<bfeVars, handleVars, lifeVars, blockVars, shared, ntasks, workerVars, th, tblk,
                   waitVars, tbuf, histVars>>

\* ~island_data() begins: the members are destroyed in the reverse order of
\* their declaration, the task queue first. ~task_queue() tells the worker
\* to stop and joins it.
DataDtorStop(t) ==
    /\ tpc[t] = "dd_stop"
    /\ qstop' = [qstop EXCEPT ![told[t]] = TRUE]
    /\ blk' = [blk EXCEPT ![told[t]] = "dying"]
    /\ tpc' = [tpc EXCEPT ![t] = "dd_join"]
    /\ UNCHANGED <<bfeVars, handleVars, lifeVars, archi_ptr, algo, pop, futures_mutex, algo_mutex,
                   pop_mutex, futures, queue, shared, ntasks, workerVars, th, tblk,
                   waitVars, tbuf, ret, histVars>>

\* Mutant: the queue is declared first in island_data and destroyed last:
\* the other members go before the worker is joined.
MembersOutliveQueue_Reversed(b) == TRUE

\* island_data declares its queue last: the handles, the population, the
\* algorithm, the mutexes and the UDI are destroyed only after ~task_queue()
\* has returned, that is after the worker has been joined.
MembersOutliveQueue(b) == wpc[b] = "exited"

\* What ends when the block has been destroyed: the destructor of the
\* handle, or the assignment or load() that replaced the block.
DataDtorFree(t) ==
    /\ tpc[t] = "dd_join"
    /\ MembersOutliveQueue(told[t])
    /\ blk' = [blk EXCEPT ![told[t]] = "freed"]
    /\ archi_ptr' = [archi_ptr EXCEPT ![told[t]] = Null]
    /\ futures' = [futures EXCEPT ![told[t]] = <<>>]
    /\ algo' = [algo EXCEPT ![told[t]] = NoAlgo]
    /\ pop' = [pop EXCEPT ![told[t]] = NoPop]
    /\ seqpop' = [seqpop EXCEPT ![told[t]] = NoPop]
    /\ retOrder' = [retOrder EXCEPT ![told[t]] = <<>>]
    /\ startLog' = [startLog EXCEPT ![told[t]] = <<>>]
    /\ evSinceWait' = [evSinceWait EXCEPT ![told[t]] = 0]
    /\ told' = [told EXCEPT ![t] = Null]
    /\ tkind' = [tkind EXCEPT ![t] = "none"]
    /\ IF tkind[t] = "dtor"
       THEN /\ m_ptr' = [m_ptr EXCEPT ![th[t]] = Null]
            /\ hlive' = [hlive EXCEPT ![th[t]] = "gone"]
       ELSE UNCHANGED <<m_ptr, hlive>>
    /\ Return(t, [NoRet EXCEPT !.op = tkind[t],
                               !.exc = IF tkind[t] = "load_fail"
                                       THEN [kind |-> "exc_archive", tid |-> Null]
                                       ELSE NoErr])
    /\ UNCHANGED <<bfeVars, futures_mutex, algo_mutex, pop_mutex, queue, qstop, shared, ntasks,
                   workerVars, th, waitVars, tbuf, tsrc, talgo, tgot, raised>>

\* island(const island &other) and operator=(const island &other): the copy
\* begins. The arguments other.get_algorithm() and other.get_population()
\* are evaluated in an order the compiler chooses.
CopyCall(t, dst, src, kind) ==
    /\ tpc[t] = "idle"
    /\ dst # src
    /\ Usable(src)
    /\ HasFreshBlock
    /\ kind \in {"copy_ctor", "copy_assign"}
    /\ kind = "copy_ctor" => hlive[dst] = "unborn"
    /\ kind = "copy_assign" => hlive[dst] = "live"
    /\ tpc' = [tpc EXCEPT ![t] = "cp_begin"]
    /\ tkind' = [tkind EXCEPT ![t] = kind]
    /\ th' = [th EXCEPT ![t] = dst]
    /\ tsrc' = [tsrc EXCEPT ![t] = src]
    /\ tblk' = [tblk EXCEPT ![t] = m_ptr[src]]
    /\ tgot' = [tgot EXCEPT ![t] = {}]
    /\ ret' = [ret EXCEPT ![t] = NoRet]
    /\ UNCHANGED <<bfeVars, handleVars, blockVars, shared, ntasks, workerVars, waitVars, tbuf,
                   talgo, told, histVars>>

\* other.get_algorithm(): take algo_mutex.
CopyLockAlgo(t) ==
    /\ tpc[t] = "cp_begin"
    /\ "algo" \notin tgot[t]
    /\ Free(algo_mutex, tblk[t])
    /\ algo_mutex' = Lock(algo_mutex, tblk[t], t)
    /\ tpc' = [tpc EXCEPT ![t] = "cp_algo"]
    /\ UNCHANGED <<bfeVars, handleVars, lifeVars, blk, archi_ptr, algo, pop, futures_mutex, pop_mutex,
                   futures, queue, qstop, shared, ntasks, workerVars, th, tblk,
                   waitVars, tbuf, ret, histVars>>

\* other.get_algorithm(): copy the algorithm and unlock.
CopyAlgo(t) ==
    /\ tpc[t] = "cp_algo"
    /\ talgo' = [talgo EXCEPT ![t] = algo[tblk[t]]]
    /\ tgot' = [tgot EXCEPT ![t] = @ \cup {"algo"}]
    /\ algo_mutex' = Unlock(algo_mutex, tblk[t])
    /\ tpc' = [tpc EXCEPT ![t] = "cp_begin"]
    /\ UNCHANGED <<bfeVars, handleVars, tkind, tsrc, told, blk, archi_ptr, algo, pop, futures_mutex,
                   pop_mutex, futures, queue, qstop, shared, ntasks, workerVars, th,
                   tblk, waitVars, tbuf, ret, histVars>>

\* other.get_population(): take pop_mutex and copy the first component.
CopyLockPop(t) ==
    /\ tpc[t] = "cp_begin"
    /\ "pop" \notin tgot[t]
    /\ Free(pop_mutex, tblk[t])
    /\ pop_mutex' = Lock(pop_mutex, tblk[t], t)
    /\ tbuf' = [tbuf EXCEPT ![t] = [pop[tblk[t]] EXCEPT !.fv = NoPop.fv]]
    /\ tpc' = [tpc EXCEPT ![t] = "cp_pop"]
    /\ UNCHANGED <<bfeVars, handleVars, lifeVars, blk, archi_ptr, algo, pop, futures_mutex, algo_mutex,
                   futures, queue, qstop, shared, ntasks, workerVars, th, tblk,
                   waitVars, ret, histVars>>

\* other.get_population(): copy the second component and unlock.
CopyPop(t) ==
    /\ tpc[t] = "cp_pop"
    /\ tbuf' = [tbuf EXCEPT ![t].fv = pop[tblk[t]].fv]
    /\ tgot' = [tgot EXCEPT ![t] = @ \cup {"pop"}]
    /\ pop_mutex' = Unlock(pop_mutex, tblk[t])
    /\ tpc' = [tpc EXCEPT ![t] = "cp_begin"]
    /\ UNCHANGED <<bfeVars, handleVars, tkind, tsrc, talgo, told, blk, archi_ptr, algo, pop, futures_mutex,
                   algo_mutex, futures, queue, qstop, shared, ntasks, workerVars, th,
                   tblk, waitVars, ret, histVars>>

\* Mutant: the copy points to the data block of the island copied from.
OwnBlock_Shared(fresh, other) == other

\* m_ptr(detail::make_unique<idata_t>(...)): the copy owns the block made
\* for it, not the block of the island copied from.
OwnBlock(fresh, other) == fresh

\* The copy's data block is made from the clone of the UDI and the two
\* copies. The copy constructor ends here; the copy assignment move-assigns
\* the temporary island, whose destructor then finds it moved-from.
CopyMake(t) ==
    /\ tpc[t] = "cp_begin"
    /\ tgot[t] = {"algo", "pop"}
    /\ MakeBlock(FreshBlock, talgo[t], tbuf[t])
    /\ m_ptr' = [m_ptr EXCEPT ![th[t]] = OwnBlock(FreshBlock, tblk[t])]
    /\ hlive' = [hlive EXCEPT ![th[t]] = "live"]
    /\ talgo' = [talgo EXCEPT ![t] = NoAlgo]
    /\ tbuf' = [tbuf EXCEPT ![t] = NoPop]
    /\ tgot' = [tgot EXCEPT ![t] = {}]
    /\ IF tkind[t] = "copy_ctor"
       THEN /\ Return(t, [NoRet EXCEPT !.op = "copy_ctor"])
            /\ tkind' = [tkind EXCEPT ![t] = "none"]
            /\ UNCHANGED told
       ELSE DestroyOrReturn(t, Displaced(m_ptr, th[t]), "copy_assign",
                            [NoRet EXCEPT !.op = "copy_assign"])
    /\ UNCHANGED <<bfeVars, futures_mutex, algo_mutex, pop_mutex, futures, queue, qstop, shared,
                   ntasks, wtask, algo_copy, pop_copy, th, waitVars, tsrc, retOrder,
                   startLog, evSinceWait, raised>>

\* What an archive holds: the algorithm and the population of a saved island.
ArchiveIslands == {<<[tier |-> "basic", failAt |-> NoFail], [dv |-> 7, fv |-> 7, prob |-> "basic"]>>}

\* load(): island tmp_island; a default-constructed island of its own.
LoadCall(t, h) ==
    /\ tpc[t] = "idle"
    /\ hlive[h] = "live"
    /\ HasFreshBlock
    /\ MakeBlock(FreshBlock, DefaultAlgo, DefaultPop)
    /\ tpc' = [tpc EXCEPT ![t] = "ld_read"]
    /\ tkind' = [tkind EXCEPT ![t] = "load"]
    /\ th' = [th EXCEPT ![t] = h]
    /\ tblk' = [tblk EXCEPT ![t] = FreshBlock]
    /\ ret' = [ret EXCEPT ![t] = NoRet]
    /\ UNCHANGED <<bfeVars, handleVars, futures_mutex, algo_mutex, pop_mutex, futures, queue,
                   qstop, shared, ntasks, wtask, algo_copy, pop_copy, waitVars, tbuf,
                   tsrc, talgo, tgot, told, retOrder, startLog, evSinceWait, raised>>

\* load(): the three reads of the archive into tmp_island, then the move
\* assignment; or a read throws and the destructor of tmp_island, which has
\* no pending task, destroys its block: *this is not touched.
LoadRead(t) ==
    /\ tpc[t] = "ld_read"
    /\ \/ /\ \E c \in ArchiveIslands :
                /\ algo' = [algo EXCEPT ![tblk[t]] = c[1]]
                /\ pop' = [pop EXCEPT ![tblk[t]] = c[2]]
                /\ seqpop' = [seqpop EXCEPT ![tblk[t]] = c[2]]
          /\ m_ptr' = [m_ptr EXCEPT ![th[t]] = tblk[t]]
          /\ DestroyOrReturn(t, Displaced(m_ptr, th[t]), "load", [NoRet EXCEPT !.op = "load"])
       \/ /\ tpc' = [tpc EXCEPT ![t] = "dd_stop"]
          /\ tkind' = [tkind EXCEPT ![t] = "load_fail"]
          /\ told' = [told EXCEPT ![t] = tblk[t]]
          /\ tblk' = [tblk EXCEPT ![t] = Null]
          /\ UNCHANGED <<m_ptr, algo, pop, seqpop, ret>>
    /\ UNCHANGED <<bfeVars, hlive, blk, archi_ptr, futures_mutex, algo_mutex, pop_mutex, futures, queue,
                   qstop, shared, ntasks, workerVars, th, waitVars, tbuf, tsrc, talgo,
                   tgot, retOrder, startLog, evSinceWait, raised>>

LifeStep(t) ==
    \/ DtorLockFails(t)
    \/ DataDtorStop(t)
    \/ DataDtorFree(t)
    \/ CopyLockAlgo(t)
    \/ CopyAlgo(t)
    \/ CopyLockPop(t)
    \/ CopyPop(t)
    \/ CopyMake(t)
    \/ LoadRead(t)

(***************************************************************************)
(* One island used by two threads while its worker runs the tasks.         *)
(***************************************************************************)
\* Thread t1 calls every operation; thread t2 submits and waits.
ThreadOps(t) == IF t = "t1" THEN IslandOps ELSE {"evolve", "wait"}

Next ==
    \/ \E t \in Threads : \E op \in ThreadOps(t) : Call(t, "A", op)
    \/ \E t \in Threads : CallerStep(t)
    \/ \E b \in Blocks : WorkerStep(b)

Spec == Init /\ [][Next]_vars

(***************************************************************************)
(* Two handles used by one thread, which also copies, moves, assigns,      *)
(* loads and destroys them, while the workers of the blocks run the tasks. *)
(***************************************************************************)
\* The tasks submitted in a run that also copies, moves, loads and destroys.
MaxLifeTasks == 1

LifeOps == {"evolve", "wait", "busy"}

LifeCallerStep(t) ==
    \/ EvolveLock(t)
    \/ EvolveEnqueue(t)
    \/ EvolveReturn(t)
    \/ WaitLock(t)
    \/ WaitGet(t)
    \/ WaitReturn(t)
    \/ BusyLock(t)
    \/ BusyScan(t)

\* The islands these runs start from: an algorithm that never throws, and
\* one whose evolve() throws on the initial population.
LifeIslands == {DefaultAlgo, [tier |-> "basic", failAt |-> 0]} \X {DefaultPop}

InitLife == InitFrom(LifeIslands) /\ BfeUnused

NextLife ==
    \/ \E h \in Handles, op \in LifeOps :
          /\ op = "evolve" => ntasks < MaxLifeTasks
          /\ Call("t1", h, op)
    \/ LifeCallerStep("t1")
    \/ \E dst, src \in Handles : MoveConstruct("t1", dst, src)
    \/ \E dst, src \in Handles : MoveAssign("t1", dst, src)
    \/ \E dst, src \in Handles, kind \in {"copy_ctor", "copy_assign"} :
          CopyCall("t1", dst, src, kind)
    \/ \E h \in Handles : LoadCall("t1", h)
    \/ \E h \in Handles : DestroyCall("t1", h)
    \/ LifeStep("t1")
    \/ \E b \in Blocks : WorkerStep(b) \/ WorkerExit(b)

SpecLife == InitLife /\ [][NextLife]_vars

(***************************************************************************)
(* One island that one thread evolves and another reads, with              *)
(* get_algorithm() and get_population(), and copy-constructs an island     *)
(* from, while its worker runs the tasks.                                  *)
(***************************************************************************)
\* Thread t1 submits the tasks; thread t2 reads and copies the island.
ReadOps == {"get_algorithm", "get_population"}

ReaderStep(t) ==
    \/ GetAlgorithmLock(t)
    \/ GetAlgorithmCopy(t)
    \/ GetPopulationLock(t)
    \/ GetPopulationCopy(t)
    \/ CopyLockAlgo(t)
    \/ CopyAlgo(t)
    \/ CopyLockPop(t)
    \/ CopyPop(t)
    \/ CopyMake(t)

NextRead ==
    \/ Call("t1", "A", "evolve")
    \/ EvolveLock("t1") \/ EvolveEnqueue("t1") \/ EvolveReturn("t1")
    \/ \E op \in ReadOps : Call("t2", "A", op)
    \/ CopyCall("t2", "B", "A", "copy_ctor")
    \/ ReaderStep("t2")
    \/ \E b \in Blocks : WorkerStep(b)

SpecRead == Init /\ [][NextRead]_vars

(***************************************************************************)
(* An island that is evolved, put into an archipelago and copied, and its  *)
(* copy, which is evolved too; busy() is called on both.                   *)
(***************************************************************************)
TheArchipelago == 1

\* An archipelago that takes the island in sets the back-reference of its
\* data block.
ArchiAttach(b) ==
    /\ blk[b] = "live"
    /\ archi_ptr[b] = Null
    /\ archi_ptr' = [archi_ptr EXCEPT ![b] = TheArchipelago]
    /\ UNCHANGED <<bfeVars, handleVars, lifeVars, blk, algo, pop, futures_mutex, algo_mutex,
                   pop_mutex, futures, queue, qstop, shared, ntasks, workerVars, tpc,
                   th, tblk, waitVars, tbuf, ret, histVars>>

\* The tasks submitted in a run that copies the island.
MaxCopyTasks == 2

CopyOps == {"evolve", "busy"}

CopyCallerStep(t) ==
    \/ EvolveLock(t)
    \/ EvolveEnqueue(t)
    \/ EvolveReturn(t)
    \/ BusyLock(t)
    \/ BusyScan(t)
    \/ CopyLockAlgo(t)
    \/ CopyAlgo(t)
    \/ CopyLockPop(t)
    \/ CopyPop(t)
    \/ CopyMake(t)

NextCopy ==
    \/ \E h \in Handles, op \in CopyOps :
          /\ op = "evolve" => ntasks < MaxCopyTasks
          /\ Call("t1", h, op)
    \/ CopyCall("t1", "B", "A", "copy_ctor")
    \/ CopyCallerStep("t1")
    \/ \E b \in Blocks : ArchiAttach(b)
    \/ \E b \in Blocks : WorkerStep(b)

SpecCopy == InitLife /\ [][NextCopy]_vars

(***************************************************************************)
(* The batch fitness evaluator: bfe::operator() checks the batch, invokes  *)
(* the driver it holds and checks the size of what the driver returned.    *)
(* The entries of a batch are told apart by their positions: entry j of    *)
(* dvs holds the value j. The fitness of a decision vector is a vector of  *)
(* p.nf values, each a function of the decision vector and nothing else.   *)
(***************************************************************************)
\* The dimensions of a problem run from 1 to MaxDim.
MaxDim == 2

\* The sizes of a batch run from 0 to MaxDvs.
MaxDvs == 4

\* The number of bits of vector_double::size_type.
SizeBits == 3

\* std::numeric_limits<vector_double::size_type>::max()
SizeMax == 2 ^ SizeBits - 1

\* The drivers: the three built-in ones and a user-defined one.
Drivers == {"thread_bfe", "member_bfe", "default_bfe", "user_bfe"}

Problems == [nx : 1..MaxDim, nf : 1..MaxDim, tier : Tiers, has_batch : BOOLEAN]

\* bad: the decision vector of the batch on which p.fitness() throws, the
\* first being 1; 0 if it throws on none.
Batches == [size : 0..MaxDvs, conforming : BOOLEAN, bad : 0..2]

Value(n) == [kind |-> "value", size |-> n]

Raise(e) == [kind |-> e, size |-> 0]

\* What user code that is to return a vector of fitnesses may do: return a
\* vector of any size, or throw.
AnyResult == {Value(n) : n \in 0..SizeMax} \cup {Raise("exc_user")}

\* Mutant: only the values of the batch are checked.
CheckInputDvs_ValuesOnly(p, d) == d.conforming

\* detail::bfe_check_input_dvs: the size of the batch is a multiple of the
\* problem's dimension and the values conform to the problem.
CheckInputDvs(p, d) == d.size % p.nx = 0 /\ d.conforming

\* Mutant: the fitnesses are checked for a whole number of vectors only.
CheckOutputFvs_MultipleOnly(p, d, size) == size % p.nf = 0

\* detail::bfe_check_output_fvs: one fitness vector for each decision
\* vector of the batch.
CheckOutputFvs(p, d, size) == size = (d.size \div p.nx) * p.nf

InitBfe ==
    /\ InitFrom({<<DefaultAlgo, DefaultPop>>})
    /\ bfe_pc = "call"
    /\ udbfe \in Drivers
    /\ bfe_p \in Problems
    /\ dvs \in Batches
    /\ retval = 0
    /\ bfe_ret = NoBfeRet
    /\ fevals = 0
    /\ out = <<>>
    /\ ranges = <<>>
    /\ texc = FALSE
    /\ fit_calls = 0
    /\ batch_calls = 0
    /\ route = <<>>
    /\ BfeObjUnused

\* The call ends with the exception e.
BfeThrow(e) ==
    /\ bfe_pc' = "done"
    /\ bfe_ret' = Raise(e)

\* The driver returns a vector of n fitnesses to bfe::operator().
DriverReturn(n) ==
    /\ retval' = n
    /\ bfe_pc' = "check_output"
    /\ UNCHANGED bfe_ret

\* detail::bfe_check_input_dvs(p, dvs);
BfeCheckInput ==
    /\ bfe_pc = "call"
    /\ IF CheckInputDvs(bfe_p, dvs)
       THEN /\ bfe_pc' = "invoke"
            /\ UNCHANGED bfe_ret
       ELSE BfeThrow("exc_input")
    /\ UNCHANGED <<udbfe, bfe_p, dvs, retval, fevals, out, ranges, texc, fit_calls,
                   batch_calls, route>>
    /\ UNCHANGED <<bfeObjVars, islandVars>>

\* auto retval((*ptr())(p, dvs)): the call operator of the held driver is
\* entered.
BfeInvoke ==
    /\ bfe_pc = "invoke"
    /\ bfe_pc' = udbfe
    /\ route' = Append(route, udbfe)
    /\ UNCHANGED <<udbfe, bfe_p, dvs, retval, bfe_ret, fevals, out, ranges, texc,
                   fit_calls, batch_calls>>
    /\ UNCHANGED <<bfeObjVars, islandVars>>

\* A user-defined driver: it returns a vector of any size or throws, having
\* called p.fitness() on every decision vector of the batch or on none.
UserBfe ==
    /\ bfe_pc = "user_bfe"
    /\ \E e \in {0, dvs.size \div bfe_p.nx} :
          /\ fit_calls' = fit_calls + e
          /\ fevals' = fevals + e
    /\ \E r \in AnyResult :
          IF r.kind = "value"
          THEN DriverReturn(r.size)
          ELSE BfeThrow(r.kind) /\ UNCHANGED retval
    /\ UNCHANGED <<udbfe, bfe_p, dvs, out, ranges, texc, batch_calls, route>>
    /\ UNCHANGED <<bfeObjVars, islandVars>>

\* member_bfe::operator(): the batch_fitness() of the problem, which is
\* user code, or an error when the problem has none.
MemberBfe ==
    /\ bfe_pc = "member_bfe"
    /\ IF bfe_p.has_batch
       THEN /\ batch_calls' = batch_calls + 1
            /\ \E r \in AnyResult :
                  IF r.kind = "value"
                  THEN DriverReturn(r.size)
                  ELSE BfeThrow(r.kind) /\ UNCHANGED retval
       ELSE /\ BfeThrow("exc_not_implemented")
            /\ UNCHANGED <<batch_calls, retval>>
    /\ UNCHANGED <<udbfe, bfe_p, dvs, fevals, out, ranges, texc, fit_calls, route>>
    /\ UNCHANGED <<bfeObjVars, islandVars>>

\* Mutant: the thread safety of the problem is looked at first.
Selected_TierFirst(p) ==
    IF TierRank(p.tier) >= TierRank("basic") THEN "thread_bfe"
    ELSE IF p.has_batch THEN "member_bfe"
    ELSE "none"

\* detail::default_bfe_cpp_impl: the problem's batch_fitness() has
\* priority, then thread_bfe if the problem is thread safe enough.
Selected(p) ==
    IF p.has_batch THEN "member_bfe"
    ELSE IF TierRank(p.tier) >= TierRank("basic") THEN "thread_bfe"
    ELSE "none"

\* default_bfe::operator(): the selection function, which enters the driver
\* it selects or throws.
DefaultBfe ==
    /\ bfe_pc = "default_bfe"
    /\ IF Selected(bfe_p) = "none"
       THEN BfeThrow("exc_invalid_argument") /\ UNCHANGED route
       ELSE /\ bfe_pc' = Selected(bfe_p)
            /\ route' = Append(route, Selected(bfe_p))
            /\ UNCHANGED bfe_ret
    /\ UNCHANGED <<udbfe, bfe_p, dvs, retval, fevals, out, ranges, texc, fit_calls,
                   batch_calls>>
    /\ UNCHANGED <<bfeObjVars, islandVars>>

\* Arithmetic of vector_double::size_type.
SizeMul(a, b) == (a * b) % (SizeMax + 1)

\* Mutant: the guard compares with the product, which wraps around.
Overflows_Wrapped(n_dvs, f_dim) == SizeMul(n_dvs, f_dim) > SizeMax

\* if (n_dvs > std::numeric_limits<vector_double::size_type>::max() / f_dim)
Overflows(n_dvs, f_dim) == n_dvs > SizeMax \div f_dim

\* An entry of retval that no evaluator has written: vector_double
\* retval(n) value-initialises its entries.
Unwritten == [n |-> 0, v |-> <<>>, by |-> 0 - 1]

\* The ranges tbb::parallel_for may split [0, k) into: the ranges between
\* the cuts of a set of cuts, each named by its begin; cur is the index
\* the evaluator of the range is at.
RangesOf(cuts, k) ==
    [a \in {0} \cup cuts |->
        [hi |-> CHOOSE c \in cuts \cup {k} : c > a /\ \A d \in cuts \cup {k} : d > a => c <= d,
         cur |-> a,
         stopped |-> FALSE]]

Partitions(k) ==
    IF k = 0 THEN {<<>>} ELSE {RangesOf(cuts, k) : cuts \in SUBSET (1..(k - 1))}

\* std::copy(in_ptr, in_ptr + n_dim, tmp_dv.begin()) with
\* in_ptr = dvs.data() + begin * n_dim: the decision vector i, from 0.
TmpDv(i, n_dim) == [j \in 1..n_dim |-> i * n_dim + j]

\* The entry c, from 1, of the fitness of the decision vector dv.
Fitness(dv, c) == <<dv, c>>

\* Mutant: the offset into retval is computed with the problem's dimension.
OutOffset_Dim(i, n_dim, f_dim) == i * n_dim

\* out_ptr = retval.data() + begin * f_dim
OutOffset(i, n_dim, f_dim) == i * f_dim

\* std::copy(fv.begin(), fv.end(), out_ptr): the entries of retval after
\* the range named a has written the fitness of dv at offset off.
Written(o, off, f_dim, dv, a) ==
    [idx \in DOMAIN o |->
        IF idx - off \in 1..f_dim
        THEN [n |-> o[idx].n + 1, v |-> Fitness(dv, idx - off), by |-> a]
        ELSE o[idx]]

\* Mutant: the evaluators are run for every tier but none.
ThreadSafeEnough_CopyOnly(tier) == TierRank(tier) >= TierRank("copyonly")

\* if (p.get_thread_safety() >= thread_safety::constant) ... else if
\* (p.get_thread_safety() == thread_safety::basic) ... else throw: the
\* tiers for which thread_bfe runs the evaluators.
ThreadSafeEnough(tier) == TierRank(tier) >= TierRank("basic")

\* thread_bfe::operator() up to the parallel_for: the overflow guard, the
\* allocation of retval, and the branch on the problem's thread safety.
ThreadBfeBegin ==
    /\ bfe_pc = "thread_bfe"
    /\ IF Overflows(dvs.size \div bfe_p.nx, bfe_p.nf)
       THEN /\ BfeThrow("exc_overflow")
            /\ UNCHANGED <<out, ranges>>
       ELSE /\ out' = [idx \in 1..SizeMul(dvs.size \div bfe_p.nx, bfe_p.nf) |-> Unwritten]
            /\ IF ThreadSafeEnough(bfe_p.tier)
               THEN /\ ranges' \in Partitions(dvs.size \div bfe_p.nx)
                    /\ bfe_pc' = "parallel_for"
                    /\ UNCHANGED bfe_ret
               ELSE /\ BfeThrow("exc_invalid_argument")
                    /\ UNCHANGED ranges
    /\ UNCHANGED <<udbfe, bfe_p, dvs, retval, fevals, texc, fit_calls, batch_calls, route>>
    /\ UNCHANGED <<bfeObjVars, islandVars>>

\* Mutant: fitness() on the shared problem does not count the evaluation.
Counted_Never(tier) == 0

\* What one successful fitness() call of an evaluator adds to the fevals
\* of p: the call is made on p itself when p is of tier constant, on a copy
\* of p when it is of tier basic.
Counted(tier) == IF TierRank(tier) >= TierRank("constant") THEN 1 ELSE 0

\* range_evaluator, one turn of its loop in the range named a: copy the
\* decision vector, call fitness() on it, copy the fitness into retval.
ThreadBfeEval(a) ==
    /\ bfe_pc = "parallel_for"
    /\ a \in DOMAIN ranges
    /\ ~ranges[a].stopped
    /\ ranges[a].cur < ranges[a].hi
    /\ fit_calls' = fit_calls + 1
    /\ IF dvs.bad = ranges[a].cur + 1
       THEN /\ texc' = TRUE
            /\ ranges' = [ranges EXCEPT ![a].stopped = TRUE]
            /\ UNCHANGED <<out, fevals>>
       ELSE /\ fevals' = fevals + Counted(bfe_p.tier)
            /\ out' = Written(out, OutOffset(ranges[a].cur, bfe_p.nx, bfe_p.nf), bfe_p.nf,
                              TmpDv(ranges[a].cur, bfe_p.nx), a)
            /\ ranges' = [ranges EXCEPT ![a].cur = @ + 1]
            /\ UNCHANGED texc
    /\ UNCHANGED <<bfe_pc, udbfe, bfe_p, dvs, retval, bfe_ret, batch_calls, route>>
    /\ UNCHANGED <<bfeObjVars, islandVars>>

\* An evaluator is inside its range: it has begun and neither ended nor
\* thrown.
Running(r, a) == ~r.stopped /\ a < r.cur /\ r.cur < r.hi

\* Mutant: the evaluations made on copies are not added to p.
Compensation_None(tier, n_dvs) == 0

\* p.increment_fevals(n_dvs) after the parallel_for on copies of p.
Compensation(tier, n_dvs) == IF tier = "basic" THEN n_dvs ELSE 0

\* tbb::parallel_for returns, once every range has been run; or it throws
\* the exception of an evaluator, once the evaluators that had begun have
\* ended, the ranges not begun being cancelled. Then return retval.
ThreadBfeJoin ==
    /\ bfe_pc = "parallel_for"
    /\ IF texc
       THEN /\ \A a \in DOMAIN ranges : ~Running(ranges[a], a)
            /\ BfeThrow("exc_fitness")
            /\ UNCHANGED <<retval, fevals>>
       ELSE /\ \A a \in DOMAIN ranges : ranges[a].cur = ranges[a].hi
            /\ fevals' = fevals + Compensation(bfe_p.tier, dvs.size \div bfe_p.nx)
            /\ DriverReturn(Len(out))
    /\ UNCHANGED <<udbfe, bfe_p, dvs, out, ranges, texc, fit_calls, batch_calls, route>>
    /\ UNCHANGED <<bfeObjVars, islandVars>>

\* detail::bfe_check_output_fvs(p, dvs, retval); return retval;
BfeCheckOutput ==
    /\ bfe_pc = "check_output"
    /\ bfe_pc' = "done"
    /\ bfe_ret' = IF CheckOutputFvs(bfe_p, dvs, retval) THEN Value(retval)
                  ELSE Raise("exc_output")
    /\ UNCHANGED <<udbfe, bfe_p, dvs, retval, fevals, out, ranges, texc, fit_calls,
                   batch_calls, route>>
    /\ UNCHANGED <<bfeObjVars, islandVars>>

NextBfe ==
    \/ BfeCheckInput
    \/ BfeInvoke
    \/ UserBfe
    \/ MemberBfe
    \/ DefaultBfe
    \/ ThreadBfeBegin
    \/ \E a \in 0..MaxDvs : ThreadBfeEval(a)
    \/ ThreadBfeJoin
    \/ BfeCheckOutput

SpecBfe == InitBfe /\ [][NextBfe]_vars

(***************************************************************************)
(* The bfe objects: each holds a driver (m_ptr) and the name and the       *)
(* thread safety the driver declared when the bfe was constructed (m_name, *)
(* m_thread_safety). The objects X and Y belong to the user, tmp is the    *)
(* tmp_bfe of load(). One thread uses them.                                *)
(***************************************************************************)
\* The built-in drivers: their get_name(), and the thread safety of a
\* driver that has no get_thread_safety() of its own.
BuiltinDrivers ==
    {[kind |-> "thread_bfe", name |-> "Multi-threaded batch fitness evaluator", tier |-> "basic"],
     [kind |-> "member_bfe", name |-> "Member function batch fitness evaluator", tier |-> "basic"],
     [kind |-> "default_bfe", name |-> "Default batch fitness evaluator", tier |-> "basic"]}

\* A user-defined driver, with what its get_name() and get_thread_safety()
\* return at present.
UserDrivers ==
    {[kind |-> "user_bfe", name |-> "u1", tier |-> "constant"],
     [kind |-> "user_bfe", name |-> "u2", tier |-> "copyonly"]}

\* bfe() : bfe(default_bfe{})
DefaultBfeDriver == CHOOSE d \in BuiltinDrivers : d.kind = "default_bfe"

\* explicit bfe(T &&x): the driver, and its name and thread safety as it
\* declares them now.
Constructed(d) ==
    [st |-> "live", m_ptr |-> d, m_name |-> d.name, m_thread_safety |-> d.tier,
     decl_name |-> d.name, decl_tier |-> d.tier]

\* Mutant: the copy takes the name its driver declares at present.
Copied_Redeclared(b) == [b EXCEPT !.st = "live", !.m_name = b.m_ptr.name]

\* bfe(const bfe &other): a clone of the driver, and the members m_name and
\* m_thread_safety of other.
Copied(b) == [b EXCEPT !.st = "live"]

\* What is left of a bfe moved from: no driver, a string that is valid but
\* unspecified (left as it was, or emptied), the same thread safety.
MovedFrom(b) ==
    {[b EXCEPT !.st = "moved", !.m_ptr = NullDriver, !.m_name = n] : n \in {b.m_name, ""}}

\* Mutant: get_name() asks the driver.
GetName_Driver(o) == bfes[o].m_ptr.name

\* bfe::get_name(): return m_name.
GetName(o) == bfes[o].m_name

\* bfe::get_thread_safety(): return m_thread_safety.
GetThreadSafety(o) == bfes[o].m_thread_safety

InitObj ==
    /\ InitFrom({<<DefaultAlgo, DefaultPop>>})
    /\ BfeCallUnused
    /\ bfes = [o \in BfeIds |-> NoBfe]
    /\ archive = NoBfe
    /\ bld = NoLoad

\* bfe x; or bfe x(udbfe);
BfeConstruct(o) ==
    /\ bld.pc = "idle"
    /\ bfes[o].st = "unborn"
    /\ \E d \in BuiltinDrivers \cup UserDrivers : bfes' = [bfes EXCEPT ![o] = Constructed(d)]
    /\ UNCHANGED <<archive, bld, bfeCallVars, islandVars>>

\* bfe dst(src);
BfeCopyConstruct(dst, src) ==
    /\ bld.pc = "idle"
    /\ bfes[dst].st = "unborn"
    /\ bfes[src].st = "live"
    /\ bfes' = [bfes EXCEPT ![dst] = Copied(bfes[src])]
    /\ UNCHANGED <<archive, bld, bfeCallVars, islandVars>>

\* bfe dst(std::move(src));
BfeMoveConstruct(dst, src) ==
    /\ bld.pc = "idle"
    /\ bfes[dst].st = "unborn"
    /\ bfes[src].st = "live"
    /\ \E m \in MovedFrom(bfes[src]) : bfes' = [bfes EXCEPT ![dst] = bfes[src], ![src] = m]
    /\ UNCHANGED <<archive, bld, bfeCallVars, islandVars>>

\* dst = std::move(src); nothing is done when dst and src are one object.
BfeMoveAssign(dst, src) ==
    /\ bld.pc = "idle"
    /\ bfes[dst].st \in {"live", "moved"}
    /\ bfes[src].st = "live"
    /\ IF dst = src
       THEN UNCHANGED bfes
       ELSE \E m \in MovedFrom(bfes[src]) : bfes' = [bfes EXCEPT ![dst] = bfes[src], ![src] = m]
    /\ UNCHANGED <<archive, bld, bfeCallVars, islandVars>>

\* dst = src; that is *this = bfe(other): a copy, moved into dst.
BfeCopyAssign(dst, src) ==
    /\ bld.pc = "idle"
    /\ bfes[dst].st \in {"live", "moved"}
    /\ bfes[src].st = "live"
    /\ bfes' = [bfes EXCEPT ![dst] = Copied(bfes[src])]
    /\ UNCHANGED <<archive, bld, bfeCallVars, islandVars>>

\* o(p, dvs): the call operator of the driver runs. It is const, but what a
\* user-defined driver declares as its name and thread safety is user code
\* and may differ afterwards.
BfeObjCall(o) ==
    /\ bld.pc = "idle"
    /\ bfes[o].st = "live"
    /\ IF bfes[o].m_ptr.kind = "user_bfe"
       THEN \E d \in UserDrivers : bfes' = [bfes EXCEPT ![o].m_ptr = d]
       ELSE UNCHANGED bfes
    /\ UNCHANGED <<archive, bld, bfeCallVars, islandVars>>

\* The destructor of a bfe.
BfeDestroy(o) ==
    /\ bld.pc = "idle"
    /\ bfes[o].st \in {"live", "moved"}
    /\ bfes' = [bfes EXCEPT ![o] = NoBfe]
    /\ UNCHANGED <<archive, bld, bfeCallVars, islandVars>>

\* bfe::save: ar(m_ptr, m_name, m_thread_safety)
BfeSave(o) ==
    /\ bld.pc = "idle"
    /\ bfes[o].st = "live"
    /\ archive' = [bfes[o] EXCEPT !.st = "saved"]
    /\ UNCHANGED <<bfes, bld, bfeCallVars, islandVars>>

\* Mutant: load() deserializes into the bfe itself.
LoadsInto_Self(o) == o

\* bfe::load: the object the archive is deserialized into, tmp_bfe.
LoadsInto(o) == "tmp"

\* bfe::load: bfe tmp_bfe;
BfeLoadCall(o) ==
    /\ bld.pc = "idle"
    /\ bfes[o].st \in {"live", "moved"}
    /\ bfes' = [bfes EXCEPT !["tmp"] = Constructed(DefaultBfeDriver)]
    /\ bld' = [pc |-> "read", target |-> o, n |-> 0, failed |-> FALSE]
    /\ UNCHANGED <<archive, bfeCallVars, islandVars>>

\* The member number n of a bfe, as read from the archive into b.
ReadMember(b, n) ==
    IF n = 1 THEN [b EXCEPT !.m_ptr = archive.m_ptr, !.decl_name = archive.decl_name,
                            !.decl_tier = archive.decl_tier]
    ELSE IF n = 2 THEN [b EXCEPT !.m_name = archive.m_name]
    ELSE [b EXCEPT !.m_thread_safety = archive.m_thread_safety]

\* bfe::load: ar(tmp_bfe.m_ptr, tmp_bfe.m_name, tmp_bfe.m_thread_safety),
\* one member at a time; the read of any of them may throw, and then
\* tmp_bfe is destroyed and the exception leaves load().
BfeLoadRead ==
    /\ bld.pc = "read"
    /\ bld.n < 3
    /\ \/ /\ archive.st = "saved"
          /\ bfes' = [bfes EXCEPT ![LoadsInto(bld.target)] = ReadMember(@, bld.n + 1)]
          /\ bld' = [bld EXCEPT !.n = @ + 1]
       \/ /\ bfes' = [bfes EXCEPT !["tmp"] = NoBfe]
          /\ bld' = [bld EXCEPT !.pc = "idle", !.failed = TRUE]
    /\ UNCHANGED <<archive, bfeCallVars, islandVars>>

\* bfe::load: *this = std::move(tmp_bfe); and tmp_bfe is destroyed.
BfeLoadAssign ==
    /\ bld.pc = "read"
    /\ bld.n = 3
    /\ bfes' = [bfes EXCEPT ![bld.target] = bfes["tmp"], !["tmp"] = NoBfe]
    /\ bld' = [bld EXCEPT !.pc = "idle"]
    /\ UNCHANGED <<archive, bfeCallVars, islandVars>>

BfeLoadStep ==
    \/ BfeLoadRead
    \/ BfeLoadAssign

NextObj ==
    \/ \E o \in Objs : BfeConstruct(o)
    \/ \E dst, src \in Objs : BfeCopyConstruct(dst, src)
    \/ \E dst, src \in Objs : BfeMoveConstruct(dst, src)
    \/ \E dst, src \in Objs : BfeMoveAssign(dst, src)
    \/ \E dst, src \in Objs : BfeCopyAssign(dst, src)
    \/ \E o \in Objs : BfeObjCall(o)
    \/ \E o \in Objs : BfeDestroy(o)
    \/ \E o \in Objs : BfeSave(o)
    \/ \E o \in Objs : BfeLoadCall(o)
    \/ BfeLoadStep

SpecObj == InitObj /\ [][NextObj]_vars

(***************************************************************************)
(* One thread that loads an island and a bfe from archives whose reading   *)
(* may fail, while the worker of the island runs its tasks.                *)
(***************************************************************************)
\* The bfe the thread loads into: a default-constructed one, or one whose
\* user-defined driver has come to declare another name since.
LoadTargets ==
    {Constructed(DefaultBfeDriver),
     [Constructed([kind |-> "user_bfe", name |-> "u1", tier |-> "constant"])
         EXCEPT !.m_ptr.name = "u2", !.m_ptr.tier = "copyonly"]}

\* What the archive of a bfe holds: a saved thread_bfe.
SavedBfes ==
    {[Constructed(d) EXCEPT !.st = "saved"] : d \in {e \in BuiltinDrivers : e.kind = "thread_bfe"}}

InitLoad ==
    /\ InitFrom(LifeIslands)
    /\ BfeCallUnused
    /\ bfes \in {[o \in BfeIds |-> IF o = "X" THEN b ELSE NoBfe] : b \in LoadTargets}
    /\ archive \in SavedBfes
    /\ bld = NoLoad

LoadCallerStep(t) ==
    \/ EvolveLock(t)
    \/ EvolveEnqueue(t)
    \/ EvolveReturn(t)
    \/ LoadRead(t)
    \/ DataDtorStop(t)
    \/ DataDtorFree(t)

NextLoad ==
    \/ /\ bld.pc = "idle"
       /\ ntasks < MaxLifeTasks
       /\ Call("t1", "A", "evolve")
    \/ /\ bld.pc = "idle"
       /\ LoadCall("t1", "A")
    \/ LoadCallerStep("t1")
    \/ /\ tpc["t1"] = "idle"
       /\ BfeLoadCall("X")
    \/ BfeLoadStep
    \/ \E b \in Blocks : WorkerStep(b) \/ WorkerExit(b)

SpecLoad == InitLoad /\ [][NextLoad]_vars

(***************************************************************************)
(* Islands that are evolved, waited for, moved, assigned to and destroyed  *)
(* by one thread, with the threads scheduled fairly: when some worker can  *)
(* take a step of its task or leave its loop, a worker eventually does,    *)
(* and the caller that is inside an operation eventually takes its next    *)
(* step. The locking primitives do not fail.                               *)
(***************************************************************************)
LiveCallerStep(t) ==
    \/ EvolveLock(t)
    \/ EvolveEnqueue(t)
    \/ EvolveReturn(t)
    \/ WaitLock(t)
    \/ WaitGet(t)
    \/ WaitReturn(t)
    \/ DataDtorStop(t)
    \/ DataDtorFree(t)
    \/ CopyLockAlgo(t)
    \/ CopyAlgo(t)
    \/ CopyLockPop(t)
    \/ CopyPop(t)
    \/ CopyMake(t)

NextLive ==
    \/ \E h \in Handles, op \in {"evolve", "wait"} :
          /\ op = "evolve" => ntasks < MaxLifeTasks
          /\ Call("t1", h, op)
    \/ LiveCallerStep("t1")
    \/ \E dst, src \in Handles : MoveConstruct("t1", dst, src)
    \/ \E dst, src \in Handles : MoveAssign("t1", dst, src)
    \/ \E dst, src \in Handles : CopyCall("t1", dst, src, "copy_assign")
    \/ \E h \in Handles : DestroyCall("t1", h)
    \/ \E b \in Blocks : WorkerStep(b) \/ WorkerExit(b)

FairLive ==
    /\ InitLife
    /\ [][NextLive]_vars
    /\ WF_vars(\E b \in Blocks : WorkerStep(b) \/ WorkerExit(b))
    /\ WF_vars(LiveCallerStep("t1"))

(***************************************************************************)
(* Transitions the properties speak about.                                 *)
(***************************************************************************)
WaitReturns(t) == tpc[t] \in {"wt_get", "wt_drain"} /\ tpc'[t] = "idle"

BusyReturns(t) == tpc[t] = "bz_scan" /\ tpc'[t] = "idle"

Position(seq, x) == CHOOSE i \in 1..Len(seq) : seq[i] = x

InSeq(seq, x) == \E i \in 1..Len(seq) : seq[i] = x

(***************************************************************************)
(* C1: for one island, the tasks start in the order in which their         *)
(* evolve() calls returned, and a task starts only after every task        *)
(* started before it has finished (with a value or with an exception): at  *)
(* most one task of the island is executing.                               *)
(***************************************************************************)
C1_FifoSequential ==
    \A b \in Blocks :
        /\ \A i, j \in 1..Len(retOrder[b]) :
              (i < j /\ InSeq(startLog[b], retOrder[b][j]))
                  => /\ InSeq(startLog[b], retOrder[b][i])
                     /\ Position(startLog[b], retOrder[b][i])
                            < Position(startLog[b], retOrder[b][j])
        /\ \A k \in 1..Len(startLog[b]) :
              k < Len(startLog[b]) => Ready(shared[startLog[b][k]])
        /\ Cardinality({k \in 1..Len(startLog[b]) : ~Ready(shared[startLog[b][k]])}) <= 1

\* Two tasks submitted by two different threads have both started, the
\* second one is running.
C1_Witness ==
    /\ Len(retOrder[1]) >= 2
    /\ Len(startLog[1]) >= 2
    /\ wtask[1] = startLog[1][2]
    /\ ret["t1"].op = "evolve"
    /\ ret["t2"].op = "evolve"

(***************************************************************************)
(* C2: once wait() has returned and no evolve() has been called since,     *)
(* the population is the one a sequential run leaves, in which each task   *)
(* runs to its end on the population its predecessor left (seqpop), under  *)
(* every interleaving of the worker with the other calls.                  *)
(***************************************************************************)
AfterWait(b) ==
    /\ evSinceWait[b] = 0
    /\ \A t \in Threads : tblk[t] = b => tpc[t] \notin {"ev_enqueue", "ev_ret"}

C2_SameAsSequential ==
    \A b \in Blocks : (blk[b] = "live" /\ AfterWait(b)) => pop[b] = seqpop[b]

\* Two tasks were submitted before one wait(), and both evolved the population.
C2_Witness ==
    /\ AfterWait(1)
    /\ pop[1].dv >= 2
    /\ ret["t2"].op = "wait"
    /\ ret["t1"].op = "get_population"
    /\ Len(retOrder[1]) = 2

(***************************************************************************)
(* C3: when wait() returns, normally or by raising, every task whose       *)
(* evolve() has returned has finished, the worker is idle and the          *)
(* population holds the effects of all those tasks; and a busy() that      *)
(* returns with no evolve() since the last wait() returns false.           *)
(***************************************************************************)
C3_WaitJoins ==
    [][\A t \in Threads :
          /\ WaitReturns(t) =>
                /\ \A k \in 1..Len(retOrder[tblk[t]]) :
                      Ready(shared'[retOrder[tblk[t]][k]])
                /\ wtask'[tblk[t]] = Null
                /\ queue'[tblk[t]] = <<>>
                /\ pop'[tblk[t]] = seqpop'[tblk[t]]
          /\ (BusyReturns(t) /\ evSinceWait[tblk[t]] = 0) => ~ret'[t].flag]_vars

\* wait() has returned after two tasks, and a busy() after it returned false.
C3_Witness ==
    /\ ret["t2"].op = "wait"
    /\ ret["t1"].op = "busy"
    /\ ~ret["t1"].flag
    /\ evSinceWait[1] = 0
    /\ Len(retOrder[1]) >= 2

(***************************************************************************)
(* C4: when wait() exits, get() has been called on every pending handle    *)
(* and the pending list is empty; wait() raises the exception of the       *)
(* first handle of the list whose task raised, and returns normally if no  *)
(* task of the list raised.                                                *)
(***************************************************************************)
Failing(fs) == {i \in 1..Len(fs) : IsExc(shared[fs[i].tid])}

FirstFailing(fs) == CHOOSE i \in Failing(fs) : \A j \in Failing(fs) : i <= j

C4_WaitRaisesFirst ==
    [][\A t \in Threads :
          WaitReturns(t) =>
             LET fs == futures[tblk[t]] IN
                /\ \A i \in 1..Len(fs) : ~fs[i].valid
                /\ futures'[tblk[t]] = <<>>
                /\ Failing(fs) = {} => ret'[t].exc = NoErr
                /\ Failing(fs) # {} =>
                      ret'[t].exc = [kind |-> shared[fs[FirstFailing(fs)].tid],
                                     tid |-> fs[FirstFailing(fs)].tid]]_vars

\* One wait() found the second and third task failed and raised the
\* second one's exception: the third one's was dropped.
C4_Witness ==
    /\ \E t \in Threads : ret[t].op = "wait" /\ ret[t].exc.tid = 2
    /\ raised = {2}
    /\ shared[1] = "value"
    /\ IsExc(shared[3])
    /\ futures[1] = <<>>

(***************************************************************************)
(* C5: a wait() that finds no evolve() returned since the last wait()      *)
(* ended returns normally and changes nothing, also when that wait()       *)
(* raised; and the exception of a task is raised by at most one wait().    *)
(***************************************************************************)
C5_WaitIdempotent ==
    [][\A t \in Threads :
          WaitReturns(t) =>
             /\ evSinceWait[tblk[t]] = 0 =>
                   /\ ret'[t].exc = NoErr
                   /\ futures' = futures
                   /\ <<algo', pop', shared', queue'>> = <<algo, pop, shared, queue>>
             /\ ret'[t].exc # NoErr => ret'[t].exc.tid \notin raised]_vars

\* A wait() raised, and the next wait(), with no evolve() between them,
\* returned normally.
C5_Witness ==
    \E t \in Threads :
        /\ ret[t].op = "wait"
        /\ ret[t].afterRaise
        /\ ret[t].exc = NoErr

(***************************************************************************)
(* C6: the exception a task raised (the thread-safety gate, a copy, the    *)
(* algorithm's evolve) is never raised by evolve(), busy(),                *)
(* get_algorithm() or get_population(): only wait() raises it.             *)
(***************************************************************************)
C6_TaskErrorsOnlyFromWait ==
    \A t \in Threads :
        ret[t].op \in {"evolve", "busy", "get_algorithm", "get_population"}
            => ret[t].exc.kind \notin ExcKinds

\* busy() returned (false) with the handle of a failed task in the list.
C6_Witness ==
    /\ ret["t1"].op = "busy"
    /\ ~ret["t1"].flag
    /\ tpc["t1"] = "idle"
    /\ tpc["t2"] = "idle"
    /\ ret["t2"].op \in {"none", "wait"}
    /\ futures[1] # <<>>
    /\ IsExc(shared[futures[1][1].tid])

(***************************************************************************)
(* C7: a call of evolve() never waits for a task to finish: it is never    *)
(* held up at futures_mutex by a wait() on another thread that owns the    *)
(* mutex while it is blocked in get() on a task that has not finished.     *)
(***************************************************************************)
BlockedInGet(u) ==
    /\ tpc[u] \in {"wt_get", "wt_drain"}
    /\ ti[u] <= Len(futures[tblk[u]])
    /\ ~HandleReady(futures[tblk[u]][ti[u]])

C7_EvolveNeverWaitsForTask ==
    \A t \in Threads :
        tpc[t] = "evolve" =>
            ~\E u \in Threads : futures_mutex[tblk[t]] = u /\ BlockedInGet(u)

(***************************************************************************)
(* C8: busy() returns true if and only if some handle of the pending list  *)
(* is not ready when it scans the list under futures_mutex, and it leaves  *)
(* the pending list, the algorithm and the population as they were.        *)
(***************************************************************************)
C8_BusyIffPending ==
    [][\A t \in Threads :
          BusyReturns(t) =>
             /\ ret'[t].flag =
                   (\E i \in 1..Len(futures[tblk[t]]) :
                       shared[futures[tblk[t]][i].tid] = "pending")
             /\ ret'[t].exc = NoErr
             /\ futures_mutex[tblk[t]] = t
             /\ <<futures', algo', pop'>> = <<futures, algo, pop>>]_vars

\* busy() returned true with two handles in the list, the first one ready.
C8_Witness ==
    /\ ret["t1"].op = "busy"
    /\ ret["t1"].flag
    /\ Len(futures[1]) >= 2
    /\ Ready(shared[futures[1][1].tid])
    /\ tpc["t2"] = "idle"
    /\ ret["t2"].op = "none"

(***************************************************************************)
(* C9: the population is written only by a worker that owns pop_mutex, a   *)
(* task reads the island's algorithm only while it owns algo_mutex, and    *)
(* every population get_population() returns is complete (never the        *)
(* component of one population with the component of another): it is the   *)
(* island's population before or after a task's assignment, and            *)
(* get_algorithm() returns the island's algorithm.                         *)
(***************************************************************************)
C9_SnapshotSafety ==
    /\ \A b \in Blocks :
          /\ wpc[b] \in {"assign_dv", "assign_fv"} => pop_mutex[b] = Worker
          /\ ~Complete(pop[b]) => (wpc[b] = "assign_fv" /\ pop_mutex[b] = Worker)
          /\ wpc[b] = "run_evolve" => algo_mutex[b] = Worker
          /\ wpc[b] = "copy_pop" => pop_mutex[b] = Worker
    /\ \A t \in Threads :
          /\ tpc[t] = "gp_copy" => pop_mutex[tblk[t]] = t
          /\ tpc[t] = "ga_copy" => algo_mutex[tblk[t]] = t
          /\ ret[t].op = "get_population" => Complete(ret[t].pop)
          /\ (ret[t].op = "get_population" /\ blk[ret[t].on] = "live") =>
                /\ ret[t].pop.prob = pop[ret[t].on].prob
                /\ ret[t].pop.dv <= pop[ret[t].on].dv
          /\ (ret[t].op = "get_algorithm" /\ blk[ret[t].on] = "live") =>
                ret[t].algo = algo[ret[t].on]

\* get_population() is copying under pop_mutex while the worker waits for
\* the mutex to assign the evolved population.
C9_Witness ==
    /\ tpc["t1"] = "gp_copy"
    /\ wpc[1] = "relock"
    /\ pop[1].dv >= 1

(***************************************************************************)
(* C10: no data block is destroyed while a task that refers to it is       *)
(* queued or running, whichever way the block is released: by the          *)
(* destructor of its island, by a move assignment, by a copy assignment or *)
(* by load(). A block whose members have been destroyed has an empty       *)
(* queue and no task in its worker.                                        *)
(***************************************************************************)
C10_NoBlockFreedUnderTask ==
    \A b \in Blocks :
        blk[b] = "freed" => (queue[b] = <<>> /\ wtask[b] = Null)

\* A move assignment, which calls no wait(), is destroying a block whose
\* task is being run by the worker: the block is not freed yet.
C10_Witness ==
    \E b \in Blocks :
        /\ tpc["t1"] = "dd_join"
        /\ tkind["t1"] = "move_assign"
        /\ told["t1"] = b
        /\ blk[b] = "dying"
        /\ wtask[b] # Null
        /\ wpc[b] = "evolve"

(***************************************************************************)
(* C11: move construction of B from A hands A's data block to B as it is:  *)
(* the pending handles, the queue and the running task are untouched and   *)
(* A is left null. busy() and wait() on an island act on the block the     *)
(* island then points to: busy() tells whether one of its handles is       *)
(* pending and wait() raises the error of the first of them that failed.   *)
(* The destructor of a moved-from island ends at once and touches no       *)
(* block.                                                                  *)
(***************************************************************************)
MoveConstructs(t, dst) ==
    /\ hlive[dst] = "unborn"
    /\ hlive'[dst] = "live"
    /\ ret'[t].op = "move_ctor"

DestroysMovedFrom(t, h) ==
    /\ tpc[t] = "idle"
    /\ hlive[h] = "live"
    /\ m_ptr[h] = Null
    /\ hlive'[h] = "gone"

C11_MoveConstructKeepsTasks ==
    [][\A t \in Threads :
          /\ \A dst \in Handles :
                MoveConstructs(t, dst) =>
                   /\ \E src \in Handles \ {dst} :
                         m_ptr'[dst] = m_ptr[src] /\ m_ptr'[src] = Null
                   /\ tpc'[t] = "idle"
                   /\ UNCHANGED <<blockVars, workerVars, shared>>
          /\ \A h \in Handles :
                DestroysMovedFrom(t, h) =>
                   /\ tpc'[t] = "idle"
                   /\ UNCHANGED <<blockVars, workerVars, shared>>
          /\ (tpc[t] = "idle" /\ tpc'[t] \in {"busy", "wait"} /\ tkind'[t] = "none") =>
                tblk'[t] = m_ptr[th'[t]]
          /\ BusyReturns(t) =>
                ret'[t].flag = (\E i \in 1..Len(futures[tblk[t]]) :
                                   shared[futures[tblk[t]][i].tid] = "pending")
          /\ WaitReturns(t) =>
                LET fs == futures[tblk[t]] IN
                   /\ Failing(fs) = {} => ret'[t].exc = NoErr
                   /\ Failing(fs) # {} =>
                         ret'[t].exc = [kind |-> shared[fs[FirstFailing(fs)].tid],
                                        tid |-> fs[FirstFailing(fs)].tid]]_vars

\* B has just been move-constructed from A while A's task was running.
C11_Witness ==
    /\ ret["t1"].op = "move_ctor"
    /\ tpc["t1"] = "idle"
    /\ m_ptr["A"] = Null
    /\ m_ptr["B"] = 1
    /\ wtask[1] # Null
    /\ Len(futures[1]) = 1

MoveAssignBegins(t) ==
    /\ tpc[t] = "idle"
    /\ tpc'[t] = "dd_stop"
    /\ tkind'[t] = "move_assign"

MoveAssignEnds(t) ==
    /\ tkind[t] = "move_assign"
    /\ tpc[t] = "dd_join"
    /\ tpc'[t] = "idle"

LoadReturns(t) ==
    /\ tpc[t] # "idle"
    /\ tpc'[t] = "idle"
    /\ ret'[t].op = "load"

C13_LoadWaitsForTasks ==
    [][\A t \in Threads :
          /\ (tkind[t] = "load" /\ tpc[t] = "ld_read" /\ tpc'[t] = "dd_stop"
                 /\ tkind'[t] = "load") =>
                /\ told'[t] = m_ptr[th[t]]
                /\ UNCHANGED <<futures, queue, workerVars, shared>>
          /\ LoadReturns(t) =>
                \/ tpc[t] = "ld_read" /\ m_ptr[th[t]] = Null
                \/ /\ tpc[t] = "dd_join"
                   /\ queue[told[t]] = <<>>
                   /\ wtask[told[t]] = Null
                   /\ \A i \in 1..Len(futures[told[t]]) :
                         Ready(shared[futures[told[t]][i].tid])]_vars

\* load() has read the archive and is destroying the block the island
\* owned, whose task the worker is still evolving.
C13_Witness ==
    \E b \in Blocks :
        /\ tkind["t1"] = "load"
        /\ tpc["t1"] = "dd_join"
        /\ told["t1"] = b
        /\ wpc[b] = "evolve"
        /\ Len(futures[b]) = 1

(***************************************************************************)
(* C14: the destructor of an island that has not been moved from waits     *)
(* until every pending task of the island has completed, and then ends     *)
(* normally also when a task raised: the errors of the tasks are           *)
(* swallowed, and nothing but a std::system_error of a locking primitive   *)
(* leaves the destructor.                                                  *)
(***************************************************************************)
DtorWaitEnds(t) ==
    /\ tkind[t] = "dtor"
    /\ tpc[t] \in {"wt_get", "wt_drain"}
    /\ tpc'[t] = "dd_stop"

DtorEnds(t) ==
    /\ tkind[t] = "dtor"
    /\ tpc[t] = "dd_join"
    /\ tpc'[t] = "idle"

C14_DtorSwallowsTaskErrors ==
    [][\A t \in Threads :
          /\ DtorWaitEnds(t) =>
                /\ \A i \in 1..Len(futures[tblk[t]]) :
                      Ready(shared[futures[tblk[t]][i].tid])
                /\ queue[tblk[t]] = <<>>
                /\ wtask[tblk[t]] = Null
                /\ told'[t] = tblk[t]
          /\ DtorEnds(t) =>
                /\ ret'[t].op = "dtor"
                /\ ret'[t].exc = NoErr
                /\ hlive'[th[t]] = "gone"
          /\ (tkind[t] = "dtor" /\ ret'[t] # ret[t]) =>
                ret'[t].exc \in {NoErr, SystemError}
          /\ (tkind[t] = "dtor" /\ tpc'[t] = "terminated") =>
                ret'[t].exc = SystemError]_vars

\* The only block there has been is destroyed and its island gone, by a
\* destructor that ended normally; the task had raised, and no wait() ever
\* raised its error.
C14_Witness ==
    /\ ret["t1"].op = "dtor"
    /\ ret["t1"].exc = NoErr
    /\ tpc["t1"] = "idle"
    /\ blk = <<"freed", "unalloc", "unalloc">>
    /\ IsExc(shared[1])
    /\ raised = {}

(***************************************************************************)
(* C15: every task an evolve() has enqueued is eventually run to its end   *)
(* (with a value or with an exception), whatever happens to its island     *)
(* meanwhile: an earlier task raising, a wait() raising, the island being  *)
(* destroyed, moved or assigned to: again and again no task is pending,    *)
(* and a task that has ended stays ended.                                  *)
(***************************************************************************)
NoTaskPending == \A tid \in TaskIds : shared[tid] # "pending"

BelowBasic(tier) == tier \in {"none", "copyonly"}

TierTooLow(b) == BelowBasic(algo[b].tier) \/ BelowBasic(pop[b].prob)

InvalidArgument == {"exc_algo_tier", "exc_prob_tier"}

C16_TierGate ==
    /\ [](\A b \in Blocks :
            (blk[b] = "live" /\ TierTooLow(b)) =>
                /\ wpc[b] \notin {"copy_pop", "evolve", "relock", "assign_dv", "assign_fv"}
                /\ algo_copy[b] = NoAlgo
                /\ pop_copy[b] = NoPop)
    /\ [][\A b \in Blocks :
            (wpc[b] = "run_evolve" /\ TierTooLow(b) /\ wpc'[b] # wpc[b]) =>
                /\ shared'[wtask[b]] \in InvalidArgument
                /\ wpc'[b] = "idle"
                /\ wtask'[b] = Null
                /\ algo'[b] = algo[b]
                /\ pop'[b] = pop[b]
                /\ algo_mutex'[b] # Worker
                /\ pop_mutex'[b] # Worker]_vars

\* A task has failed the check of the problem, whose tier alone is too
\* low: the worker is idle again and holds no mutex.
C16_Witness ==
    /\ shared[1] = "exc_prob_tier"
    /\ ~BelowBasic(algo[1].tier)
    /\ pop[1].prob = "copyonly"
    /\ wpc[1] = "idle"
    /\ algo_mutex[1] # Worker
    /\ pop_mutex[1] # Worker

(***************************************************************************)
(* C17, as stated: when the tiers of the algorithm and of the problem are  *)
(* both below basic and differ, the invalid-argument error of run_evolve   *)
(* names the one of the two whose tier is the lower.                       *)
(***************************************************************************)
TaskFailsCheck(b) ==
    /\ wpc[b] = "run_evolve"
    /\ wpc'[b] = "idle"
    /\ shared'[wtask[b]] \in InvalidArgument

LowerTierParty(b) ==
    IF TierRank(algo[b].tier) < TierRank(pop[b].prob) THEN "exc_algo_tier"
    ELSE "exc_prob_tier"

C17_ErrorNamesLowerTier ==
    [][\A b \in Blocks :
          (/\ TaskFailsCheck(b)
           /\ BelowBasic(algo[b].tier)
           /\ BelowBasic(pop[b].prob)
           /\ algo[b].tier # pop[b].prob) =>
              shared'[wtask[b]] = LowerTierParty(b)]_vars

(***************************************************************************)
(* C17, amended: the invalid-argument error of run_evolve names the        *)
(* algorithm whenever the algorithm's tier is below basic, whatever the    *)
(* problem's tier, and names the problem when only the problem's tier is   *)
(* below basic.                                                            *)
(***************************************************************************)
C17_ErrorNamesFirstFailing ==
    [][\A b \in Blocks :
          TaskFailsCheck(b) =>
              /\ TierTooLow(b)
              /\ BelowBasic(algo[b].tier) => shared'[wtask[b]] = "exc_algo_tier"
              /\ ~BelowBasic(algo[b].tier) => shared'[wtask[b]] = "exc_prob_tier"]_vars

\* The algorithm is copyonly and the problem none: the error of the task
\* names the algorithm, whose tier is the higher of the two.
C17_Witness ==
    /\ algo[1].tier = "copyonly"
    /\ pop[1].prob = "none"
    /\ shared[1] = "exc_algo_tier"

(***************************************************************************)
(* C18: while a task is in its evolve step the worker holds neither        *)
(* algo_mutex nor pop_mutex of its block, so a get_algorithm(), a          *)
(* get_population() or a copy construction that another thread has begun   *)
(* on the island can take its next step right away, unless another reader  *)
(* holds the mutex it needs: it never waits for the task.                  *)
(***************************************************************************)
InEvolveStep(b) == wpc[b] = "evolve"

C18_ReadersNeverWaitForEvolve ==
    \A b \in Blocks :
        InEvolveStep(b) =>
            /\ algo_mutex[b] # Worker
            /\ pop_mutex[b] # Worker
            /\ \A t \in Threads :
                  tblk[t] = b =>
                      /\ (tpc[t] = "get_algorithm" /\ algo_mutex[b] \notin Threads) =>
                            ENABLED GetAlgorithmLock(t)
                      /\ tpc[t] = "ga_copy" => ENABLED GetAlgorithmCopy(t)
                      /\ (tpc[t] = "get_population" /\ pop_mutex[b] \notin Threads) =>
                            ENABLED GetPopulationLock(t)
                      /\ tpc[t] = "gp_copy" => ENABLED GetPopulationCopy(t)
                      /\ (tpc[t] = "cp_begin" /\ "algo" \notin tgot[t]
                             /\ algo_mutex[b] \notin Threads) =>
                            ENABLED CopyLockAlgo(t)
                      /\ tpc[t] = "cp_algo" => ENABLED CopyAlgo(t)
                      /\ (tpc[t] = "cp_begin" /\ "pop" \notin tgot[t]
                             /\ pop_mutex[b] \notin Threads) =>
                            ENABLED CopyLockPop(t)
                      /\ tpc[t] = "cp_pop" => ENABLED CopyPop(t)
                      /\ (tpc[t] = "cp_begin" /\ tgot[t] = {"algo", "pop"}) =>
                            ENABLED CopyMake(t)

\* The first task is in its evolve step, and the copy constructor, which
\* has the algorithm already, holds pop_mutex: it took it after the task
\* had released it.
C18_Witness ==
    /\ InEvolveStep(1)
    /\ wtask[1] = 1
    /\ tkind["t2"] = "copy_ctor"
    /\ tpc["t2"] = "cp_pop"
    /\ pop_mutex[1] = "t2"
    /\ tgot["t2"] = {"algo"}

(***************************************************************************)
(* C19: copy-constructing an island from another one, also while the       *)
(* source has pending or running tasks, makes a data block of its own for  *)
(* the copy, with no pending handle (busy() on it is false), no queued or  *)
(* running task and a null archipelago pointer; no step of the copy        *)
(* changes the source's algorithm, population, pending handles, queue,     *)
(* running task or archipelago pointer, nor the result of any task; and a  *)
(* step of evolve() on one island, or of the worker of one island,         *)
(* changes nothing of any other island.                                    *)
(***************************************************************************)
SameIsland(b) ==
    /\ algo'[b] = algo[b]
    /\ pop'[b] = pop[b]
    /\ futures'[b] = futures[b]
    /\ queue'[b] = queue[b]
    /\ qstop'[b] = qstop[b]
    /\ wpc'[b] = wpc[b]
    /\ wtask'[b] = wtask[b]
    /\ archi_ptr'[b] = archi_ptr[b]

SameMutexes(b) ==
    /\ futures_mutex'[b] = futures_mutex[b]
    /\ algo_mutex'[b] = algo_mutex[b]
    /\ pop_mutex'[b] = pop_mutex[b]

MutexesFreeAfter(b) == <<algo_mutex'[b], pop_mutex'[b]>> = <<NoOwner, NoOwner>>

TasksOf(b) ==
    ({futures[b][i].tid : i \in 1..Len(futures[b])} \cup {wtask[b]}) \ {Null}

CopyCtorStep(t) ==
    /\ tkind[t] = "copy_ctor"
    /\ tpc[t] \in {"cp_begin", "cp_algo", "cp_pop"}
    /\ tpc'[t] # tpc[t]

CopyCtorEnds(t) ==
    /\ CopyCtorStep(t)
    /\ tpc'[t] = "idle"

EvolveStepOn(b) ==
    \E t \in Threads : tpc[t] \in EvolvePcs /\ tblk[t] = b /\ tpc'[t] # tpc[t]

WorkerStepOn(b) == wpc[b] # "none" /\ wpc'[b] # wpc[b]

C19_CopyIsIndependent ==
    [][/\ \A t \in Threads :
             CopyCtorStep(t) =>
                 /\ SameIsland(tblk[t])
                 /\ shared' = shared
       /\ \A t \in Threads :
             CopyCtorEnds(t) =>
                 /\ m_ptr'[th[t]] # Null
                 /\ blk[m_ptr'[th[t]]] = "unalloc"
                 /\ blk'[m_ptr'[th[t]]] = "live"
                 /\ \A h \in Handles \ {th[t]} : m_ptr'[h] # m_ptr'[th[t]]
                 /\ m_ptr'[tsrc[t]] = tblk[t]
                 /\ futures'[m_ptr'[th[t]]] = <<>>
                 /\ queue'[m_ptr'[th[t]]] = <<>>
                 /\ wtask'[m_ptr'[th[t]]] = Null
                 /\ archi_ptr'[m_ptr'[th[t]]] = Null
                 /\ MutexesFreeAfter(m_ptr'[th[t]])
       /\ \A t \in Threads :
             (tpc[t] = "bz_scan" /\ tpc'[t] = "idle" /\ futures[tblk[t]] = <<>>) =>
                 ret'[t].flag = FALSE /\ ret'[t].exc = NoErr
       /\ \A b \in Blocks :
             (EvolveStepOn(b) \/ WorkerStepOn(b)) =>
                 \A c \in Blocks \ {b} :
                     /\ SameIsland(c)
                     /\ SameMutexes(c)
                     /\ \A tid \in TasksOf(c) : shared'[tid] = shared[tid]]_vars

\* The copy constructor has just ended; the island copied from is in an
\* archipelago and its only task, enqueued before the copy began, is in its
\* evolve step; the copy has a block of its own with no handle and no
\* archipelago.
C19_Witness ==
    /\ ret["t1"].op = "copy_ctor"
    /\ tpc["t1"] = "idle"
    /\ m_ptr = [h \in Handles |-> IF h = "A" THEN 1 ELSE 2]
    /\ archi_ptr[1] = TheArchipelago
    /\ archi_ptr[2] = Null
    /\ Len(futures[1]) = 1
    /\ shared[1] = "pending"
    /\ wpc[1] = "evolve"
    /\ futures[2] = <<>>

(***************************************************************************)
(* C20: for a batch whose size is a multiple of the problem's dimension,   *)
(* a bfe call that returns normally returns (size / nx) * nf fitnesses,    *)
(* whatever driver the bfe holds; a result of the driver of any other      *)
(* size makes the call raise an error and is never returned.               *)
(***************************************************************************)
BfeReturned == bfe_pc = "done" /\ bfe_ret.kind = "value"

C20_BatchShape ==
    /\ (BfeReturned /\ dvs.size % bfe_p.nx = 0) =>
          /\ bfe_ret.size = (dvs.size \div bfe_p.nx) * bfe_p.nf
          /\ bfe_ret.size = retval
    /\ (bfe_pc = "done" /\ retval # (dvs.size \div bfe_p.nx) * bfe_p.nf) =>
          bfe_ret.kind # "value"

\* A user-defined driver has returned the two fitnesses of a batch of two
\* decision vectors, and the call has returned them.
C20_Witness ==
    /\ BfeReturned
    /\ udbfe = "user_bfe"
    /\ bfe_p.nx = 2
    /\ bfe_p.nf = 1
    /\ dvs.size = 4
    /\ bfe_ret = Value(2)

(***************************************************************************)
(* C21: thread_bfe on a problem of tier basic or constant, whatever the    *)
(* ranges the batch of k decision vectors is split into and however the    *)
(* evaluators of the ranges interleave: no entry of the output is ever     *)
(* written twice, and when thread_bfe returns every entry in [0, k * nf)   *)
(* has been written exactly once, by the evaluator of the range its        *)
(* decision vector lies in, and the entries [i * nf, (i + 1) * nf) hold    *)
(* the fitness of the decision vector i. The output is therefore the same  *)
(* under every schedule.                                                   *)
(***************************************************************************)
\* thread_bfe has returned its output to bfe::operator().
ThreadBfeReturned ==
    /\ route # <<>>
    /\ route[Len(route)] = "thread_bfe"
    /\ bfe_pc = "check_output" \/ (bfe_pc = "done" /\ bfe_ret.kind = "value")

\* The range the decision vector i lies in.
RangeOfDv(i) == CHOOSE a \in DOMAIN ranges : a <= i /\ i < ranges[a].hi

C21_EachSliceWrittenOnce ==
    /\ \A idx \in DOMAIN out : out[idx].n <= 1
    /\ ThreadBfeReturned =>
          /\ Len(out) = (dvs.size \div bfe_p.nx) * bfe_p.nf
          /\ \A i \in 0..((dvs.size \div bfe_p.nx) - 1) : \A c \in 1..bfe_p.nf :
                out[i * bfe_p.nf + c] =
                    [n |-> 1, v |-> Fitness(TmpDv(i, bfe_p.nx), c), by |-> RangeOfDv(i)]

\* thread_bfe has returned the six fitnesses of three decision vectors that
\* were evaluated in two ranges or more.
C21_Witness ==
    /\ ThreadBfeReturned
    /\ bfe_p.nx = 1
    /\ bfe_p.nf = 2
    /\ dvs.size = 3
    /\ Cardinality(DOMAIN ranges) >= 2
    /\ Len(out) = 6

(***************************************************************************)
(* C22: when the size of the batch is not a multiple of the problem's      *)
(* dimension, the input check fails and bfe::operator() raises without     *)
(* invoking the driver it holds: no driver is entered, neither fitness()   *)
(* nor batch_fitness() is called, and the fevals of the problem are what   *)
(* they were before the call.                                              *)
(***************************************************************************)
C22_BadInputNeverReachesDriver ==
    (bfe_pc # "call" /\ dvs.size % bfe_p.nx # 0) =>
        /\ bfe_pc = "done"
        /\ bfe_ret = Raise("exc_input")
        /\ route = <<>>
        /\ fit_calls = 0
        /\ batch_calls = 0
        /\ fevals = 0
        /\ out = <<>>

\* A bfe holding thread_bfe has been called with three values for a
\* problem of dimension two, and the call has raised.
C22_Witness ==
    /\ bfe_pc = "done"
    /\ udbfe = "thread_bfe"
    /\ TierRank(bfe_p.tier) >= TierRank("basic")
    /\ bfe_p.nx = 2
    /\ dvs.size = 3
    /\ dvs.conforming
    /\ bfe_ret = Raise("exc_input")

(***************************************************************************)
(* C23: thread_bfe on a problem of tier none or copyonly raises without    *)
(* evaluating anything: fitness() is never called and the fevals of the    *)
(* problem are unchanged. The error is the invalid-argument error of the   *)
(* tier branch, unless the overflow guard, which comes first, has raised   *)
(* its overflow error.                                                     *)
(***************************************************************************)
\* thread_bfe was the last driver entered and has gone past its first step.
ThreadBfeActed ==
    /\ route # <<>>
    /\ route[Len(route)] = "thread_bfe"
    /\ bfe_pc # "thread_bfe"

C23_LowTierRaisesUnevaluated ==
    (ThreadBfeActed /\ bfe_p.tier \in {"none", "copyonly"}) =>
        /\ bfe_pc = "done"
        /\ bfe_ret = IF Overflows(dvs.size \div bfe_p.nx, bfe_p.nf)
                     THEN Raise("exc_overflow")
                     ELSE Raise("exc_invalid_argument")
        /\ ranges = <<>>
        /\ fit_calls = 0
        /\ fevals = 0

\* The claim as stated: the error is always the invalid-argument error.
C23_LowTierAlwaysInvalidArgument ==
    (ThreadBfeActed /\ bfe_p.tier \in {"none", "copyonly"}) =>
        /\ bfe_pc = "done"
        /\ bfe_ret = Raise("exc_invalid_argument")
        /\ fit_calls = 0
        /\ fevals = 0

\* thread_bfe has raised the invalid-argument error for two decision
\* vectors of a problem of tier copyonly.
C23_Witness ==
    /\ ThreadBfeActed
    /\ bfe_p.tier = "copyonly"
    /\ bfe_p.nx = 1
    /\ dvs.size = 2
    /\ bfe_ret = Raise("exc_invalid_argument")
    /\ Len(out) = 2 * bfe_p.nf
    /\ fit_calls = 0

(***************************************************************************)
(* C24: when a thread_bfe call on k decision vectors returns normally, the *)
(* fevals of the caller's problem have increased by exactly k: for a       *)
(* problem of tier constant through the k fitness() calls made on the      *)
(* problem itself, for a problem of tier basic, whose fitness() calls are  *)
(* made on copies and leave the problem's counter alone, through the one   *)
(* increment_fevals(k) that follows the parallel region.                   *)
(***************************************************************************)
\* The evaluations that have succeeded so far in the parallel region.
Evaluated == LET Done(a) == ranges[a].cur - a
                 Sum[S \in SUBSET DOMAIN ranges] ==
                     IF S = {} THEN 0
                     ELSE LET a == CHOOSE x \in S : TRUE IN Done(a) + Sum[S \ {a}]
             IN Sum[DOMAIN ranges]

C24_FevalsGrowByBatch ==
    /\ ThreadBfeReturned =>
          /\ fevals = dvs.size \div bfe_p.nx
          /\ fit_calls = dvs.size \div bfe_p.nx
    /\ (bfe_pc = "parallel_for" /\ bfe_p.tier = "basic") => fevals = 0
    /\ (bfe_pc = "parallel_for" /\ bfe_p.tier = "constant") => fevals = Evaluated

\* thread_bfe has returned the fitnesses of three decision vectors of a
\* problem of tier basic, evaluated on copies in two ranges or more.
C24_Witness ==
    /\ ThreadBfeReturned
    /\ bfe_p.tier = "basic"
    /\ bfe_p.nx = 1
    /\ dvs.size = 3
    /\ Cardinality(DOMAIN ranges) >= 2
    /\ fit_calls = 3
    /\ fevals = 3

(***************************************************************************)
(* C25: default_bfe forwards the call to member_bfe whenever the problem   *)
(* has a batch_fitness(), whatever its tier, and then makes no call of     *)
(* fitness(); otherwise it forwards to thread_bfe when the tier is basic   *)
(* or higher; otherwise it raises an invalid-argument error without        *)
(* evaluating anything.                                                    *)
(***************************************************************************)
\* default_bfe is the driver held by the bfe and has made its selection.
DefaultBfeActed ==
    /\ route # <<>>
    /\ route[1] = "default_bfe"
    /\ bfe_pc # "default_bfe"

C25_DefaultSelection ==
    DefaultBfeActed =>
        IF bfe_p.has_batch
        THEN /\ route = <<"default_bfe", "member_bfe">>
             /\ fit_calls = 0
             /\ out = <<>>
             /\ bfe_pc # "member_bfe" => batch_calls = 1
        ELSE IF TierRank(bfe_p.tier) >= TierRank("basic")
        THEN /\ route = <<"default_bfe", "thread_bfe">>
             /\ batch_calls = 0
        ELSE /\ route = <<"default_bfe">>
             /\ bfe_pc = "done"
             /\ bfe_ret = Raise("exc_invalid_argument")
             /\ fit_calls = 0
             /\ batch_calls = 0
             /\ fevals = 0
             /\ out = <<>>

\* default_bfe has forwarded to member_bfe a batch for a problem of tier
\* constant that has a batch_fitness(), which has returned.
C25_Witness ==
    /\ DefaultBfeActed
    /\ bfe_p.has_batch
    /\ bfe_p.tier = "constant"
    /\ dvs.size = 2
    /\ route = <<"default_bfe", "member_bfe">>
    /\ batch_calls = 1
    /\ BfeReturned

(***************************************************************************)
(* C26: thread_bfe raises an overflow error exactly when k * nf exceeds    *)
(* the largest value of the index type, that is when k > max / nf in       *)
(* integer division; it does so before allocating the output and before    *)
(* any call of fitness(). Otherwise the output has k * nf entries, the     *)
(* product being computed without wrap-around.                             *)
(***************************************************************************)
C26_OverflowGuard ==
    ThreadBfeActed =>
        LET k == dvs.size \div bfe_p.nx
        IN /\ (bfe_ret = Raise("exc_overflow")) <=> (k * bfe_p.nf > SizeMax)
           /\ (k * bfe_p.nf > SizeMax) <=> (k > SizeMax \div bfe_p.nf)
           /\ bfe_ret = Raise("exc_overflow") =>
                 /\ bfe_pc = "done"
                 /\ out = <<>>
                 /\ ranges = <<>>
                 /\ fit_calls = 0
           /\ bfe_ret # Raise("exc_overflow") =>
                 /\ Len(out) = k * bfe_p.nf
                 /\ SizeMul(k, bfe_p.nf) = k * bfe_p.nf

\* thread_bfe has raised the overflow error for four decision vectors of a
\* problem with two fitness values, eight entries not fitting the index
\* type.
C26_Witness ==
    /\ ThreadBfeActed
    /\ bfe_p.nx = 1
    /\ bfe_p.nf = 2
    /\ bfe_p.tier = "constant"
    /\ dvs.size = 4
    /\ 4 * 2 > SizeMax
    /\ bfe_ret = Raise("exc_overflow")
    /\ out = <<>>

(***************************************************************************)
(* C27: a bfe call that raises leaves no partial mutation behind: the      *)
(* fevals of the problem equal their value before the call, also when the  *)
(* error arises after the driver has started evaluating (fitness() failing *)
(* on a later decision vector under thread_bfe on a problem of tier        *)
(* constant, or the output check failing after the driver has returned).   *)
(***************************************************************************)
\* The call has ended with an exception.
BfeRaised == bfe_pc = "done" /\ bfe_ret.kind \notin {"value", "none"}

C27_RaiseLeavesFevals == BfeRaised => fevals = 0

(***************************************************************************)
(* C28: after any sequence of constructions, copy and move constructions,  *)
(* copy and move assignments, calls, saves and loads, every bfe that is    *)
(* not moved from holds a driver, and its get_name() and                   *)
(* get_thread_safety() return what its driver declared when the bfe, or    *)
(* the bfe it was copied, moved or loaded from, was constructed; a call    *)
(* changes neither.                                                        *)
(***************************************************************************)
BfeHoldsDeclared(o) ==
    /\ bfes[o].m_ptr # NullDriver
    /\ bfes[o].m_ptr.kind \in Drivers
    /\ GetName(o) = bfes[o].decl_name
    /\ GetThreadSafety(o) = bfes[o].decl_tier

C28_NameAndTierAreCached ==
    /\ [](\A o \in Objs : bfes[o].st = "live" => BfeHoldsDeclared(o))
    /\ [][\A o \in Objs : BfeObjCall(o) =>
              /\ GetName(o)' = GetName(o)
              /\ GetThreadSafety(o)' = GetThreadSafety(o)]_vars

\* Y is a copy of X, made after the user-defined driver of X had come to
\* declare another name and thread safety than at the construction of X.
C28_Witness ==
    /\ bfes["X"].st = "live"
    /\ bfes["X"].m_ptr.name = "u2"
    /\ GetName("X") = "u1"
    /\ GetThreadSafety("X") = "constant"
    /\ bfes["Y"].st = "live"
    /\ bfes["Y"].m_ptr.name = "u2"
    /\ GetName("Y") = "u1"
    /\ GetThreadSafety("Y") = "constant"

(***************************************************************************)
(* C29: when the deserialization fails part-way inside load(), the target  *)
(* is left exactly as it was: no step of a bfe::load that ends with the    *)
(* exception changes the driver, the name or the thread safety of the bfe, *)
(* and no step of an island::load that ends with the exception changes the *)
(* data block of the island, its pending tasks, its algorithm or its       *)
(* population. Only a load() whose reads have all succeeded assigns.       *)
(***************************************************************************)
\* A step of bfe::load before its move assignment: the construction of
\* tmp_bfe, a read, or the exception of a read.
BfeLoadReads == bld'.pc = "read" \/ (bld.pc = "read" /\ bld'.failed)

\* A step of thread t inside an island::load that has not read the whole
\* archive, or that is leaving with the exception.
IslandLoadReads(t) ==
    /\ tpc'[t] # tpc[t]
    /\ tpc'[t] = "ld_read" \/ tkind'[t] = "load_fail" \/ tkind[t] = "load_fail"

\* The step leaves the island handle h and its data block as they are.
IslandKept(h) ==
    /\ m_ptr'[h] = m_ptr[h]
    /\ hlive'[h] = hlive[h]
    /\ m_ptr[h] # Null =>
          /\ blk'[m_ptr[h]] = blk[m_ptr[h]]
          /\ SameIsland(m_ptr[h])
          /\ SameMutexes(m_ptr[h])

C29_FailedLoadKeepsTarget ==
    [][/\ BfeLoadReads => bfes'[bld'.target] = bfes[bld'.target]
       /\ (bld.pc = "read" /\ bld'.pc = "idle" /\ ~bld'.failed) => bld.n = 3
       /\ \A t \in Threads : IslandLoadReads(t) =>
             /\ IslandKept(th'[t])
             /\ (tpc'[t] = "idle" => ret'[t].exc.kind = "exc_archive")]_vars

\* The load() of the island has raised while its task was pending and has
\* left the handle of the task in place; then the load() of the bfe has
\* raised after the driver was read, and the bfe has kept its driver and
\* its name.
C29_Witness ==
    /\ tpc["t1"] = "idle"
    /\ ret["t1"].op = "load_fail"
    /\ ret["t1"].exc.kind = "exc_archive"
    /\ m_ptr["A"] # Null
    /\ Len(futures[m_ptr["A"]]) = 1
    /\ bld.pc = "idle"
    /\ bld.failed
    /\ bld.n >= 1
    /\ bfes["X"].m_ptr.kind = "user_bfe"
    /\ GetName("X") = "u1"
    /\ bfes["tmp"] = NoBfe

(***************************************************************************)
(* C30: the data block of an island is destroyed only after every task of  *)
(* the island has completed, on every path that destroys a block. The      *)
(* destructor of the island gets there through wait(), which has drained   *)
(* all the pending handles when the destruction of the block begins. Move  *)
(* assignment, copy assignment and load() call no wait(): the destructor   *)
(* of the block's task queue lets the worker finish the tasks, and the     *)
(* handles, all ready by then, are destroyed with the block.               *)
(***************************************************************************)
\* Thread t is destroying a data block.
DestroysBlock(t) == tpc[t] \in {"dd_stop", "dd_join"}

\* The step of thread t that destroys the members of the block.
BlockFreedBy(t) == tpc[t] = "dd_join" /\ tpc'[t] # "dd_join"

LockCallerStep(t) ==
    \/ EvolveLock(t)
    \/ EvolveEnqueue(t)
    \/ EvolveReturn(t)
    \/ WaitLock(t)
    \/ WaitGet(t)
    \/ WaitReturn(t)
    \/ BusyLock(t)
    \/ BusyScan(t)

NextLock ==
    \/ \E op \in {"evolve", "wait", "busy"} :
          /\ op = "evolve" => ntasks < MaxCopyTasks
          /\ Call("t1", "A", op)
    \/ LockCallerStep("t1")
    \/ \E op \in ReadOps : Call("t2", "A", op)
    \/ CopyCall("t2", "B", "A", "copy_ctor")
    \/ ReaderStep("t2")
    \/ \E b \in Blocks : WorkerStep(b)

SpecLock == InitLife /\ [][NextLock]_vars

\* The mutexes of a data block, in the order nested acquisition follows.
MutexRank == [futures_mutex |-> 1, algo_mutex |-> 2, pop_mutex |-> 3]

MutexNames == DOMAIN MutexRank

\* The mutexes of block b that x (a calling thread or the worker of b) holds.
Held(x, b) ==
    {m \in MutexNames :
        \/ m = "futures_mutex" /\ futures_mutex[b] = x
        \/ m = "algo_mutex" /\ algo_mutex[b] = x
        \/ m = "pop_mutex" /\ pop_mutex[b] = x}

\* x acquires mutex m of block b in this step.
Acquires(x, b, m) ==
    \/ m = "futures_mutex" /\ futures_mutex[b] # x /\ futures_mutex'[b] = x
    \/ m = "algo_mutex" /\ algo_mutex[b] # x /\ algo_mutex'[b] = x
    \/ m = "pop_mutex" /\ pop_mutex[b] # x /\ pop_mutex'[b] = x

HeldAnywhere(t) == UNION {{<<b, m>> : m \in Held(t, b)} : b \in Blocks}

(***************************************************************************)
(* C31: nobody acquires a mutex of an island while holding one that comes  *)
(* later in the order futures_mutex, algo_mutex, pop_mutex: the task body  *)
(* takes algo_mutex and then pop_mutex, the worker holds neither when      *)
(* run_evolve locks pop_mutex again, and a thread inside evolve(), wait(), *)
(* busy(), get_algorithm(), get_population() or the copy constructor holds *)
(* at most one of the three mutexes, the worker never futures_mutex.       *)
(***************************************************************************)
C31_LockOrder ==
    /\ [][\A x \in Threads \cup {Worker}, b \in Blocks, m \in MutexNames :
             Acquires(x, b, m) => \A k \in Held(x, b) : MutexRank[k] < MutexRank[m]]_vars
    /\ [](\A t \in Threads : Cardinality(HeldAnywhere(t)) <= 1)
    /\ [](\A b \in Blocks :
             /\ futures_mutex[b] # Worker
             /\ wpc[b] = "relock" => Held(Worker, b) = {}
             /\ wpc[b] = "lock_pop" => Held(Worker, b) = {"algo_mutex"})

\* The worker is about to lock pop_mutex again while one thread is inside
\* wait(), holding futures_mutex, and the other inside the copy
\* constructor, holding pop_mutex.
C31_Witness ==
    /\ wpc[1] = "relock"
    /\ futures_mutex[1] = "t1" /\ tpc["t1"] \in {"wt_get", "wt_drain"}
    /\ pop_mutex[1] = "t2" /\ tkind["t2"] = "copy_ctor"

(***************************************************************************)
(* C32: when enqueue throws inside evolve(), the empty handle evolve()     *)
(* had appended is popped before the exception leaves: the pending list is *)
(* what it was when evolve() took futures_mutex, and nothing was queued.   *)
(* The empty handle lives only inside the critical section of evolve(): no *)
(* other thread changes the list meanwhile, and every handle wait() is     *)
(* about to call get() on, and every handle busy() probes, refers to a     *)
(* task and has its shared state.                                          *)
(***************************************************************************)
EnqueueThrows(t) ==
    /\ tpc[t] = "ev_enqueue"
    /\ tpc'[t] = "idle"
    /\ ret'[t].exc.kind = "exc_enqueue"

Associated(f) == f.tid # Null /\ f.valid

C32_EnqueueFailureLeavesNoTrace ==
    /\ [][\A t \in Threads :
             /\ (tpc[t] = "evolve" /\ tpc'[t] = "ev_enqueue")
                   => futures'[tblk[t]] = Append(futures[tblk[t]], EmptyFuture)
             /\ (tpc[t] = "ev_enqueue" /\ tpc'[t] = "ev_enqueue")
                   => futures'[tblk[t]] = futures[tblk[t]]
             /\ EnqueueThrows(t)
                   => /\ Append(futures'[tblk[t]], EmptyFuture) = futures[tblk[t]]
                      /\ queue' = queue /\ shared' = shared /\ ntasks' = ntasks
                      /\ futures_mutex[tblk[t]] = t
                      /\ futures_mutex'[tblk[t]] = NoOwner]_vars
    /\ [](\A t \in Threads :
             /\ tpc[t] \in {"wt_get", "wt_drain"}
                   => \A i \in ti[t]..Len(futures[tblk[t]]) :
                          Associated(futures[tblk[t]][i])
             /\ tpc[t] = "bz_scan"
                   => \A i \in 1..Len(futures[tblk[t]]) :
                          Associated(futures[tblk[t]][i]))

\* The evolve() of one thread has raised what enqueue threw, and the other
\* thread, whose wait() was called while that evolve() held futures_mutex,
\* is inside wait() with a handle to call get() on.
C32_Witness ==
    /\ ret["t1"].op = "evolve"
    /\ ret["t1"].exc.kind = "exc_enqueue"
    /\ tpc["t1"] = "idle"
    /\ tpc["t2"] \in {"wt_get", "wt_drain"}
    /\ ti["t2"] <= Len(futures[tblk["t2"]])

(***************************************************************************)
(* C33: the pending list of an island is as long as the number of evolve() *)
(* calls that have succeeded on it since the last wait() on it ended (or   *)
(* since construction), counting an evolve() that has enqueued its task    *)
(* and is about to return, and the list has one more element, the empty    *)
(* handle, only while an evolve() is between emplace_back and enqueue.     *)
(* The list gets shorter only when a wait() clears it or when an evolve()  *)
(* whose enqueue threw pops its own empty handle: busy(), the worker and   *)
(* the end of a task leave it alone.                                       *)
(***************************************************************************)
\* The evolve() calls on block b that hold futures_mutex, in the given
\* positions.
EvolvesAt(b, pcs) == Cardinality({t \in Threads : tblk[t] = b /\ tpc[t] \in pcs})

C33_PendingCountsEvolves ==
    /\ [](\A b \in Blocks :
             blk[b] = "live" =>
                /\ Len(futures[b]) = evSinceWait[b] + EvolvesAt(b, {"ev_enqueue", "ev_ret"})
                /\ Free(futures_mutex, b) => Len(futures[b]) = evSinceWait[b])
    /\ [][\A b \in Blocks :
             /\ Len(futures'[b]) < Len(futures[b])
                   => \E t \in Threads :
                         /\ tblk[t] = b
                         /\ futures_mutex[b] = t
                         /\ \/ WaitReturns(t) /\ futures'[b] = <<>>
                            \/ EnqueueThrows(t)
             /\ (\E t \in Threads : tblk[t] = b /\ BusyReturns(t))
                   => futures'[b] = futures[b]
             /\ (wpc'[b] # wpc[b] \/ shared' # shared) /\ ntasks' = ntasks
                   => futures'[b] = futures[b]]_vars

\* A busy() has just returned false on an island whose two tasks have
\* ended, and both handles are still in the list.
C33_Witness ==
    /\ ret["t1"].op = "busy"
    /\ ~ret["t1"].flag
    /\ tpc["t1"] = "idle" /\ tpc["t2"] = "idle"
    /\ evSinceWait[1] = 2
    /\ Len(futures[1]) = 2
    /\ \A i \in 1..2 : Ready(shared[futures[1][i].tid])

(***************************************************************************)
(* The island of SpecLock with its destruction, the threads scheduled      *)
(* fairly: a thread inside an operation whose next step stays possible     *)
(* eventually takes it, and a worker whose next step is possible again and *)
(* again eventually takes it: a worker blocked in pop_lock.lock() is not   *)
(* overtaken for ever by readers that keep calling get_population(). The   *)
(* island is destroyed by the thread that evolves it, while no other       *)
(* thread is inside a call on it, and no call on it begins afterwards.     *)
(* The locking primitives do not fail.                                     *)
(***************************************************************************)
Destroying(h) == \E t \in Threads : tkind[t] = "dtor" /\ th[t] = h

DeadlockCallerStep(t) ==
    \/ LockCallerStep(t)
    \/ DataDtorStop(t)
    \/ DataDtorFree(t)

NextDeadlock ==
    \/ \E op \in {"evolve", "wait", "busy"} :
          /\ op = "evolve" => ntasks < MaxCopyTasks
          /\ Call("t1", "A", op)
    \/ tpc["t2"] = "idle" /\ DestroyCall("t1", "A")
    \/ DeadlockCallerStep("t1")
    \/ \E op \in ReadOps : ~Destroying("A") /\ Call("t2", "A", op)
    \/ ~Destroying("A") /\ CopyCall("t2", "B", "A", "copy_ctor")
    \/ ReaderStep("t2")
    \/ \E b \in Blocks : WorkerStep(b) \/ WorkerExit(b)

FairDeadlock ==
    /\ InitLife
    /\ [][NextDeadlock]_vars
    /\ \A b \in Blocks : SF_vars(WorkerStep(b) \/ WorkerExit(b))
    /\ WF_vars(DeadlockCallerStep("t1"))
    /\ WF_vars(ReaderStep("t2"))

(***************************************************************************)
(* C34: with a thread_island whose evolve step terminates, the worker and  *)
(* the threads calling evolve(), wait(), busy(), get_algorithm(),          *)
(* get_population(), the copy constructor and the destructor never reach a *)
(* state in which a call is in progress and neither a caller nor a worker  *)
(* can take a step, and every call that has begun eventually returns, the  *)
(* wait() that holds futures_mutex while a task is running included.       *)
(***************************************************************************)
InCall(t) == tpc[t] # "idle"

SomeStep ==
    \/ DeadlockCallerStep("t1")
    \/ ReaderStep("t2")
    \/ \E b \in Blocks : WorkerStep(b) \/ WorkerExit(b)

Assigning(b) == wpc[b] \in {"assign_dv", "assign_fv"}

TaskEnds(b) == wtask[b] # Null /\ wtask'[b] = Null

TaskRaises(b) == TaskEnds(b) /\ IsExc(shared'[wtask[b]])

C35_TaskWritesOnlyFinalPopulation ==
    /\ [][\A b \in Blocks :
             WorkerStep(b) =>
                /\ algo' = algo
                /\ pop'[b] # pop[b] => Assigning(b)
                /\ \A c \in Blocks \ {b} : pop'[c] = pop[c]
                /\ TaskRaises(b) =>
                      /\ ~Assigning(b)
                      /\ pop'[b] = seqpop[b]
                      /\ seqpop'[b] = seqpop[b]
                /\ (TaskEnds(b) /\ ~TaskRaises(b)) =>
                      /\ wpc[b] = "assign_fv"
                      /\ pop'[b] = AlgoEvolve(algo[b], seqpop[b])
                      /\ pop'[b] = seqpop'[b]
                /\ (wpc[b] = "copy_pop" /\ wpc'[b] = "evolve") =>
                      pop_copy'[b] = seqpop[b]]_vars
    /\ [](\A b \in Blocks :
             (blk[b] = "live" /\ wpc[b] # "assign_fv") => pop[b] = seqpop[b])

\* The second task has copied the population that the first task, which
\* raised, left as it was at construction; the third task is queued.
C35_Witness ==
    /\ IsExc(shared[1])
    /\ wtask[1] = 2
    /\ wpc[1] = "evolve"
    /\ pop_copy[1] = pop[1]
    /\ pop[1] = seqpop[1]
    /\ queue[1] = <<3>>

(***************************************************************************)
(* C36: two wait() calls made concurrently on an island are serialized by  *)
(* futures_mutex: at most one thread is inside the loops of wait(), and it *)
(* holds the mutex. The wait() that finds a failed task's handle raises    *)
(* that task's error and leaves the list empty while the other is still    *)
(* blocked at the lock; the other then finds the list empty and returns    *)
(* normally. No task's error is raised by two wait() calls, and get() is   *)
(* called only on handles that have their shared state, which it takes     *)
(* away: never twice on one handle.                                        *)
(***************************************************************************)
WaitPcs == {"wt_get", "wt_drain"}

\* The other thread has called wait() on the same island and is blocked at
\* the lock.
BlockedInWait(u, b) == tpc[u] = "wait" /\ tblk[u] = b /\ tkind[u] # "dtor"

WaitGets(t) == tpc[t] \in WaitPcs /\ ti'[t] = ti[t] + 1

C36_ConcurrentWaitsSerialized ==
    /\ [](\A b \in Blocks :
             /\ Cardinality({t \in Threads : tpc[t] \in WaitPcs /\ tblk[t] = b}) <= 1
             /\ \A t \in Threads :
                   (tpc[t] \in WaitPcs /\ tblk[t] = b) => futures_mutex[b] = t)
    /\ [][\A t \in Threads :
             /\ WaitGets(t) =>
                   /\ Associated(futures[tblk[t]][ti[t]])
                   /\ ~futures'[tblk[t]][ti[t]].valid
             /\ WaitReturns(t) =>
                   LET fs == futures[tblk[t]] IN
                      /\ Failing(fs) # {} =>
                            /\ ret'[t].exc.tid = fs[FirstFailing(fs)].tid
                            /\ ret'[t].exc.tid \notin raised
                      /\ fs = <<>> => ret'[t].exc = NoErr
                      /\ \A u \in Threads \ {t} :
                            BlockedInWait(u, tblk[t]) =>
                               /\ tpc'[u] = "wait"
                               /\ futures'[tblk[t]] = <<>>
                               /\ futures_mutex'[tblk[t]] = NoOwner
             /\ (tpc[t] = "wait" /\ tpc'[t] = "wt_get"
                    /\ evSinceWait[tblk[t]] = 0) => futures[tblk[t]] = <<>>]_vars

\* One thread's wait() has called get() on the handle of the failed task,
\* caught its error and is about to clear the list and raise, while the
\* other thread, which has called wait() too, is blocked at the lock.
C36_Witness ==
    /\ tpc["t1"] = "wt_drain"
    /\ terr["t1"].tid = 1
    /\ ti["t1"] > Len(futures[1])
    /\ futures_mutex[1] = "t1"
    /\ BlockedInWait("t2", 1)
    /\ raised = {}

====
